---- MODULE Spec2Model ----
(***************************************************************************)
(* nodepp: a minimal concurrent HTTP server.                               *)
(*                                                                         *)
(* The module models                                                       *)
(*   - ThreadPool      (ThreadPool.h): task queue, queue mutex, condition  *)
(*                     variable, stop flag, worker threads;                *)
(*   - App             (App.h / App.cpp): listen (socket setup and accept  *)
(*                     loop), get / post, handleRequest;                   *)
(*   - Request/Response (ReqRes.cpp): the parts handleRequest uses.        *)
(*                                                                         *)
(* Two next-state relations share the pool's state:                        *)
(*   NextPool  the pool as a component, one step per statement: a client   *)
(*             thread that enqueues opaque terminating tasks and an owner  *)
(*             thread that destroys the pool;                              *)
(*   Next      the server: the acceptor thread enqueues one handleRequest  *)
(*             task per accepted connection, another thread registers      *)
(*             routes. Here each critical section of the queue mutex is    *)
(*             one step (Accept with its enqueue, WorkerTake).             *)
(*                                                                         *)
(* Six more relations use parts of it:                                     *)
(*   NextStall     the server with a pool of any size, no route and peers  *)
(*                 that may never send;                                    *)
(*   NextParse     Request(httpRequest) on its own, for requests put       *)
(*                 together from a few targets, line ends, header lines    *)
(*                 and bodies;                                             *)
(*   NextResponse  a chain of calls on one Response, then toHttpResponse;  *)
(*   NextDispatch  the Response handleRequest hands to a handler, the      *)
(*                 handler's calls on it, the fallback and the send;       *)
(*   NextLocks     the server with every step of the queue mutex, and a    *)
(*                 route registered before listen;                         *)
(*   NextReentrant the server with a handler that registers a route on     *)
(*                 the App that is dispatching it.                         *)
(***************************************************************************)
EXTENDS Integers, Sequences, FiniteSets, TLC

\* ------------------------------------------------------------------ bounds
NumWorkers == 2      \* worker threads of the pool (ThreadPool(numThreads))
MaxTasks   == 2      \* tasks a client enqueues in one run of the pool
MaxConns   == 2      \* connections accepted in one run of the server

Workers == 1..NumWorkers
Ids     == 1..(IF MaxTasks > MaxConns THEN MaxTasks ELSE MaxConns)

\* ------------------------------------------------------------- thread names
W(i)      == <<"worker", i>>
Producer  == <<"producer", 0>>     \* the thread that calls enqueue
Owner     == <<"owner", 0>>        \* the thread that destroys the pool
Registrar == <<"registrar", 0>>    \* the thread that calls get / post
Free      == <<"free", 0>>         \* an unlocked std::mutex

VARIABLES
    \* ThreadPool
    tasks,        \* std::queue<std::function<void()>> tasks (ids of the tasks)
    stop,         \* bool stop
    queueMutex,   \* std::mutex queueMutex: its holder, or Free
    wpc,          \* position of each worker thread in its loop
    wtask,        \* the task a worker has moved out of the queue (0: none)
    enqPc,        \* position of the producer inside ThreadPool::enqueue
    enqTask,      \* the task being enqueued (0: none)
    nextId,       \* next task id / client socket to hand out
    dtorPc,       \* position of the owner inside ~ThreadPool
    joined,       \* number of workers the destructor has joined
    \* observations of the pool (history)
    execCount,    \* how many times each task has been run to completion
    started,      \* tasks whose execution has begun
    afterStop,    \* tasks whose enqueue was invoked with stop already set
    queuedAtStop, \* tasks that were in the queue when stop was set
    pushedBeforeStop, \* tasks put into the queue while stop was still false
    enqOutcome,   \* what the caller of enqueue observed for each task
    \* App
    acceptorPc,   \* position of the thread inside App::listen
    serverSocket, \* int serverSocket: "unset" (-1), "open" or "closed"
    clientSocket, \* what accept returned last (-1: error, 0: nothing yet)
    onStartCalls, \* how many times listen has invoked onStart
    routes,       \* std::unordered_map<std::string, RouteHandler> routes
    routesMutex,  \* std::mutex routesMutex: its holder, or Free
    regDone,      \* the get / post calls the application has made
    regArgs,      \* the get / post call in progress (NoCall: none)
    terminated,   \* std::terminate was called: the process is gone
    \* locals of handleRequest, per worker
    wreq,         \* Request req
    wres,         \* Response res
    wfound,       \* the handler routes.find returned ("none": routes.end())
    wsent,        \* the responses this run of handleRequest handed to send
    winvoked,     \* the handlers this run of handleRequest invoked, in order
    wexpected,    \* lastReg of req.path when this run looked the path up
    \* observations of the server (history)
    lastReg,      \* per path, the handler of the latest completed get / post
    regMethods,   \* per path, the methods it was registered with
    readResult,   \* per connection, how its read ended
    reads,        \* per connection, read calls on its socket
    sends,        \* per connection, send calls on its socket
    closes,       \* per connection, close calls on its socket
    cerr,         \* what the server has written to std::cerr, in order
    \* more of the pool
    numThreads,   \* the argument of ThreadPool(size_t numThreads)
    pushOrder,    \* the tasks in the order tasks.emplace put them in the queue
    takeOrder,    \* the tasks in the order the workers moved them out of it
    doneOrder,    \* for a pool of one worker, the tasks in the order they completed
    \* Request, constructed on its own
    reqParts,     \* what the peer put together: target, line end, headers, body
    requestBytes, \* the std::string the Request is constructed from
    request,      \* the Request constructed from requestBytes
    parsePc,      \* "input" before Request(requestBytes), "parsed" after it
    \* Response, used on its own
    response,     \* the Response object
    resCalls,     \* the calls made on it so far, in order
    httpResponse, \* what toHttpResponse() returned
    resPc         \* "building" until toHttpResponse() is called, then "serialized"

poolVars == <<tasks, stop, queueMutex, wpc, wtask, enqPc, enqTask, nextId,
              dtorPc, joined, execCount, started, afterStop, queuedAtStop,
              pushedBeforeStop, enqOutcome>>

queueVars == <<tasks, stop, queueMutex, dtorPc, joined>>
enqVars   == <<enqPc, enqTask, nextId>>
histVars  == <<started, afterStop, queuedAtStop, pushedBeforeStop, enqOutcome>>

acceptVars == <<acceptorPc, serverSocket, clientSocket, onStartCalls>>
routeVars  == <<routes, routesMutex, regDone, regArgs, lastReg, regMethods>>
reqVars    == <<wreq, wres, wfound, wsent, winvoked, wexpected>>
connVars   == <<readResult, reads, sends, closes>>

appVars == <<acceptVars, routeVars, reqVars, connVars, terminated>>

orderVars == <<pushOrder, takeOrder, doneOrder>>
parseVars == <<reqParts, requestBytes, request, parsePc>>
responseVars == <<response, resCalls, httpResponse, resPc>>
inputVars == <<numThreads, parseVars, responseVars>>

vars == <<poolVars, appVars, cerr, orderVars, inputVars>>

\* ------------------------------------------------------------- ThreadPool

InitPool ==
    /\ tasks = <<>>
    /\ stop = FALSE
    /\ queueMutex = Free
    /\ wpc = [w \in Workers |-> IF w <= numThreads THEN "loop" ELSE "absent"]
    /\ wtask = [w \in Workers |-> 0]
    /\ enqPc = "idle"
    /\ enqTask = 0
    /\ nextId = 1
    /\ dtorPc = "alive"
    /\ joined = 0
    /\ execCount = [t \in Ids |-> 0]
    /\ started = {}
    /\ afterStop = {}
    /\ queuedAtStop = {}
    /\ pushedBeforeStop = {}
    /\ enqOutcome = [t \in Ids |-> "none"]
    /\ pushOrder = <<>>
    /\ takeOrder = <<>>
    /\ doneOrder = <<>>

Range(s) == {s[i] : i \in 1..Len(s)}

\* a wait that is over only when the pool is stopped
StopOnlyPredicate == stop

\* condition.wait's predicate: stop || !tasks.empty()
WaitPredicate == stop \/ tasks # <<>>

\* std::unique_lock<std::mutex> lock(queueMutex) at the top of the worker loop
WorkerLock(w) ==
    /\ ~terminated
    /\ UNCHANGED inputVars
    /\ UNCHANGED cerr
    /\ UNCHANGED orderVars
    /\ wpc[w] = "loop"
    /\ queueMutex = Free
    /\ queueMutex' = W(w)
    /\ wpc' = [wpc EXCEPT ![w] = "wait"]
    /\ UNCHANGED <<tasks, stop, wtask, enqPc, enqTask, nextId, dtorPc, joined,
                   execCount, started, afterStop, queuedAtStop, enqOutcome,
                   pushedBeforeStop, appVars>>

\* a condition variable may wake a waiter without any notify
WorkerSpuriousWake(w) ==
    /\ ~terminated
    /\ UNCHANGED inputVars
    /\ UNCHANGED cerr
    /\ UNCHANGED orderVars
    /\ wpc[w] = "blocked"
    /\ wpc' = [wpc EXCEPT ![w] = "woken"]
    /\ UNCHANGED <<tasks, stop, queueMutex, wtask, enqPc, enqTask, nextId,
                   dtorPc, joined, execCount, started, afterStop,
                   queuedAtStop, enqOutcome, pushedBeforeStop, appVars>>

\* a woken waiter takes the mutex again and tests the predicate again
WorkerReacquire(w) ==
    /\ ~terminated
    /\ UNCHANGED inputVars
    /\ UNCHANGED cerr
    /\ UNCHANGED orderVars
    /\ wpc[w] = "woken"
    /\ queueMutex = Free
    /\ queueMutex' = W(w)
    /\ wpc' = [wpc EXCEPT ![w] = "wait"]
    /\ UNCHANGED <<tasks, stop, wtask, enqPc, enqTask, nextId, dtorPc, joined,
                   execCount, started, afterStop, queuedAtStop, enqOutcome,
                   pushedBeforeStop, appVars>>

\* a worker that leaves as soon as stop is set, discarding what is queued
WorkerExitsOnStop == stop

\* the worker's exit test: if (stop && tasks.empty()) return;
WorkerExits == stop /\ tasks = <<>>

\* a pop that leaves the task at the front of the queue
PopNothing(q) == q

\* tasks.pop()
Pop(q) == Tail(q)

\* a loop that calls task() inside the block of the lock
LockHeldIntoTask(w) == W(w)

\* who holds the mutex when task() is called: the block of the
\* std::unique_lock ends before the call
LockAtTaskCall(w) == Free

\* With the mutex held:
\*   condition.wait(lock, [this] { return stop || !tasks.empty(); });
\*     predicate false: release the mutex and block on the condition variable
\*   if (stop && tasks.empty()) return;
\*   task = std::move(tasks.front()); tasks.pop();   and the lock's scope ends
WorkerWait(w) ==
    /\ ~terminated
    /\ UNCHANGED inputVars
    /\ UNCHANGED cerr
    /\ wpc[w] = "wait"
    /\ queueMutex = W(w)
    /\ queueMutex' = IF WaitPredicate /\ ~WorkerExits THEN LockAtTaskCall(w)
                                                      ELSE Free
    /\ IF ~WaitPredicate
         THEN /\ wpc' = [wpc EXCEPT ![w] = "blocked"]
              /\ UNCHANGED <<tasks, wtask, started, takeOrder>>
         ELSE IF WorkerExits
         THEN /\ wpc' = [wpc EXCEPT ![w] = "exited"]
              /\ UNCHANGED <<tasks, wtask, started, takeOrder>>
         ELSE /\ tasks # <<>>
              /\ wtask' = [wtask EXCEPT ![w] = Head(tasks)]
              /\ tasks' = Pop(tasks)
              /\ started' = started \cup {Head(tasks)}
              /\ takeOrder' = Append(takeOrder, Head(tasks))
              /\ wpc' = [wpc EXCEPT ![w] = "run"]
    /\ UNCHANGED <<pushOrder, doneOrder>>
    /\ UNCHANGED <<stop, enqPc, enqTask, nextId, dtorPc, joined, execCount,
                   afterStop, queuedAtStop, enqOutcome, pushedBeforeStop,
                   appVars>>

\* task(); for an opaque task that terminates, then back to the top of the loop
WorkerRunTask(w) ==
    /\ ~terminated
    /\ UNCHANGED inputVars
    /\ UNCHANGED cerr
    /\ wpc[w] = "run"
    /\ execCount' = [execCount EXCEPT ![wtask[w]] = @ + 1]
    /\ doneOrder' = IF numThreads = 1 THEN Append(doneOrder, wtask[w])
                                     ELSE doneOrder
    /\ UNCHANGED <<pushOrder, takeOrder>>
    /\ wtask' = [wtask EXCEPT ![w] = 0]
    /\ wpc' = [wpc EXCEPT ![w] = "loop"]
    /\ UNCHANGED <<tasks, stop, queueMutex, enqPc, enqTask, nextId, dtorPc,
                   joined, started, afterStop, queuedAtStop, enqOutcome, pushedBeforeStop,
                   appVars>>

\* a client calls threadPool.enqueue(f) on a pool that has not been destroyed
ClientEnqueue ==
    /\ ~terminated
    /\ UNCHANGED inputVars
    /\ UNCHANGED cerr
    /\ UNCHANGED orderVars
    /\ enqPc = "idle"
    /\ nextId <= MaxTasks
    /\ dtorPc # "destroyed"
    /\ enqPc' = "lock"
    /\ enqTask' = nextId
    /\ nextId' = nextId + 1
    /\ afterStop' = IF stop THEN afterStop \cup {nextId} ELSE afterStop
    /\ UNCHANGED <<tasks, stop, queueMutex, wpc, wtask, dtorPc, joined,
                   execCount, started, queuedAtStop, enqOutcome, pushedBeforeStop,
                   appVars>>

\* enqueue: std::unique_lock<std::mutex> lock(queueMutex);
EnqLock ==
    /\ ~terminated
    /\ UNCHANGED inputVars
    /\ UNCHANGED cerr
    /\ UNCHANGED orderVars
    /\ enqPc = "lock"
    /\ queueMutex = Free
    /\ queueMutex' = Producer
    /\ enqPc' = "push"
    /\ UNCHANGED <<tasks, stop, wpc, wtask, enqTask, nextId, dtorPc, joined,
                   execCount, started, afterStop, queuedAtStop, enqOutcome, pushedBeforeStop,
                   appVars>>

\* an emplace that puts the task at the front of the queue
EmplaceFront(q, t) == <<t>> \o q

\* tasks.emplace(std::forward<F>(f)): the queue with task t added at the back
Emplace(q, t) == Append(q, t)

\* enqueue: tasks.emplace(...), whatever the stop flag says; the lock's scope ends
EnqPush ==
    /\ ~terminated
    /\ UNCHANGED inputVars
    /\ UNCHANGED cerr
    /\ enqPc = "push"
    /\ queueMutex = Producer
    /\ queueMutex' = Free
    /\ tasks' = Emplace(tasks, enqTask)
    /\ pushOrder' = Append(pushOrder, enqTask)
    /\ UNCHANGED <<takeOrder, doneOrder>>
    /\ pushedBeforeStop' = IF stop THEN pushedBeforeStop
                                   ELSE pushedBeforeStop \cup {enqTask}
    /\ enqPc' = "notify"
    /\ UNCHANGED <<stop, wpc, wtask, enqTask, nextId, dtorPc, joined, execCount,
                   started, afterStop, queuedAtStop, enqOutcome,
                   appVars>>

\* an enqueue that forgets to notify
NotifyNobody == {}

\* the set of waiters condition.notify_one() may wake: one of those blocked
NotifyOneTargets == {w \in Workers : wpc[w] = "blocked"}

\* enqueue: condition.notify_one(); and enqueue returns normally
EnqNotify ==
    /\ ~terminated
    /\ UNCHANGED inputVars
    /\ UNCHANGED cerr
    /\ UNCHANGED orderVars
    /\ enqPc = "notify"
    /\ IF NotifyOneTargets = {}
         THEN UNCHANGED wpc
         ELSE \E w \in NotifyOneTargets : wpc' = [wpc EXCEPT ![w] = "woken"]
    /\ enqOutcome' = [enqOutcome EXCEPT ![enqTask] = "returned"]
    /\ enqPc' = "idle"
    /\ enqTask' = 0
    /\ UNCHANGED <<tasks, stop, queueMutex, wtask, nextId, dtorPc, joined,
                   execCount, started, afterStop, queuedAtStop, pushedBeforeStop,
                   appVars>>

\* ~ThreadPool: std::unique_lock<std::mutex> lock(queueMutex);
DtorLock ==
    /\ ~terminated
    /\ UNCHANGED inputVars
    /\ UNCHANGED cerr
    /\ UNCHANGED orderVars
    /\ dtorPc = "alive"
    /\ queueMutex = Free
    /\ queueMutex' = Owner
    /\ dtorPc' = "locked"
    /\ UNCHANGED <<tasks, stop, wpc, wtask, enqPc, enqTask, nextId, joined,
                   execCount, started, afterStop, queuedAtStop, enqOutcome, pushedBeforeStop,
                   appVars>>

\* ~ThreadPool: stop = true; and the lock's scope ends
DtorSetStop ==
    /\ ~terminated
    /\ UNCHANGED inputVars
    /\ UNCHANGED cerr
    /\ UNCHANGED orderVars
    /\ dtorPc = "locked"
    /\ queueMutex = Owner
    /\ stop' = TRUE
    /\ queuedAtStop' = Range(tasks)
    /\ queueMutex' = Free
    /\ dtorPc' = "notify"
    /\ UNCHANGED <<tasks, wpc, wtask, enqPc, enqTask, nextId, joined,
                   execCount, started, afterStop, enqOutcome, pushedBeforeStop,
                   appVars>>

\* ~ThreadPool: condition.notify_all();
DtorNotifyAll ==
    /\ ~terminated
    /\ UNCHANGED inputVars
    /\ UNCHANGED cerr
    /\ UNCHANGED orderVars
    /\ dtorPc = "notify"
    /\ wpc' = [w \in Workers |-> IF wpc[w] = "blocked" THEN "woken" ELSE wpc[w]]
    /\ dtorPc' = "join"
    /\ UNCHANGED <<tasks, stop, queueMutex, wtask, enqPc, enqTask, nextId,
                   joined, execCount, started, afterStop, queuedAtStop,
                   enqOutcome, pushedBeforeStop,
                   appVars>>

\* whether worker.join() can return for worker w: the thread has finished
Joinable(w) == wpc[w] = "exited"

\* ~ThreadPool: for (std::thread &worker : workers) worker.join();
DtorJoin ==
    /\ ~terminated
    /\ UNCHANGED inputVars
    /\ UNCHANGED cerr
    /\ UNCHANGED orderVars
    /\ dtorPc = "join"
    /\ joined < numThreads
    /\ Joinable(joined + 1)
    /\ joined' = joined + 1
    /\ UNCHANGED <<tasks, stop, queueMutex, wpc, wtask, enqPc, enqTask, nextId,
                   dtorPc, execCount, started, afterStop, queuedAtStop,
                   enqOutcome, pushedBeforeStop,
                   appVars>>

\* ~ThreadPool returns once every worker is joined
DtorReturn ==
    /\ ~terminated
    /\ UNCHANGED inputVars
    /\ UNCHANGED cerr
    /\ UNCHANGED orderVars
    /\ dtorPc = "join"
    /\ joined = numThreads
    /\ dtorPc' = "destroyed"
    /\ UNCHANGED <<tasks, stop, queueMutex, wpc, wtask, enqPc, enqTask, nextId,
                   joined, execCount, started, afterStop, queuedAtStop,
                   enqOutcome, pushedBeforeStop,
                   appVars>>

WorkerLoop(w) ==
    \/ WorkerLock(w)
    \/ WorkerWait(w)
    \/ WorkerSpuriousWake(w)
    \/ WorkerReacquire(w)

Enqueue == EnqLock \/ EnqPush \/ EnqNotify

Destructor == DtorLock \/ DtorSetStop \/ DtorNotifyAll \/ DtorJoin \/ DtorReturn

NextPool ==
    \/ \E w \in Workers : WorkerLoop(w)
    \/ \E w \in Workers : WorkerRunTask(w)
    \/ ClientEnqueue
    \/ Enqueue
    \/ Destructor

\* ------------------------------------------------------- byte strings
\* A std::string is a sequence of one-character strings; positions are
\* 0-based as in C++, and -1 stands for std::string::npos.

At(s, i) == s[i + 1]

\* s.find(c, from)
RECURSIVE FindChar(_, _, _)
FindChar(s, c, from) ==
    IF from >= Len(s) THEN -1
    ELSE IF At(s, from) = c THEN from
    ELSE FindChar(s, c, from + 1)

\* whether pat occurs in s at position i
MatchesAt(s, pat, i) ==
    /\ i + Len(pat) <= Len(s)
    /\ \A k \in 0..(Len(pat) - 1) : At(s, i + k) = At(pat, k)

\* s.find(pat, from) for a non-empty pattern
RECURSIVE FindStr(_, _, _)
FindStr(s, pat, from) ==
    IF from + Len(pat) > Len(s) THEN -1
    ELSE IF MatchesAt(s, pat, from) THEN from
    ELSE FindStr(s, pat, from + 1)

\* s.substr(pos, count) for pos <= s.size(); a negative count stands for a
\* count of npos or one that wrapped around: the rest of the string
Substr(s, pos, count) ==
    IF count < 0 \/ pos + count > Len(s)
      THEN SubSeq(s, pos + 1, Len(s))
      ELSE SubSeq(s, pos + 1, pos + count)

\* s.substr(pos)
SubstrFrom(s, pos) == SubSeq(s, pos + 1, Len(s))

\* std::isspace in the "C" locale, over the characters used here
IsSpace(c) == c \in {" ", "\t", "\n", "\r", "\f"}

IsDigit(c) == c \in {"0", "1", "2", "3", "4", "5", "6", "7", "8", "9"}

DigitValue(c) ==
    CASE c = "0" -> 0 [] c = "1" -> 1 [] c = "2" -> 2 [] c = "3" -> 3
      [] c = "4" -> 4 [] c = "5" -> 5 [] c = "6" -> 6 [] c = "7" -> 7
      [] c = "8" -> 8 [] c = "9" -> 9

DigitChar(d) == At(<<"0", "1", "2", "3", "4", "5", "6", "7", "8", "9">>, d)

\* first position >= i of s that holds no white space (Len(s) if none)
RECURSIVE SkipSpace(_, _)
SkipSpace(s, i) ==
    IF i >= Len(s) THEN Len(s)
    ELSE IF IsSpace(At(s, i)) THEN SkipSpace(s, i + 1)
    ELSE i

\* first position >= i of s that holds white space (Len(s) if none)
RECURSIVE TokenEnd(_, _)
TokenEnd(s, i) ==
    IF i >= Len(s) THEN Len(s)
    ELSE IF IsSpace(At(s, i)) THEN i
    ELSE TokenEnd(s, i + 1)

\* std::getline(stream, line) from position pos: the line without its '\n'
\* and the position after it; ok is false when nothing was left to read
GetLine(s, pos) ==
    IF pos >= Len(s)
      THEN [ok |-> FALSE, line |-> <<>>, next |-> Len(s)]
      ELSE LET nl == FindChar(s, "\n", pos) IN
           IF nl = -1
             THEN [ok |-> TRUE, line |-> SubstrFrom(s, pos), next |-> Len(s)]
             ELSE [ok |-> TRUE, line |-> Substr(s, pos, nl - pos), next |-> nl + 1]

\* stream >> word from position pos: skip white space, take the characters up
\* to the next white space; an empty word when the stream is exhausted
ReadWord(s, pos) ==
    LET a == SkipSpace(s, pos)
        b == TokenEnd(s, a)
    IN  [word |-> Substr(s, a, b - a), next |-> b]

\* std::to_string of a non-negative number
RECURSIVE StdToString(_)
StdToString(n) ==
    IF n < 10 THEN <<DigitChar(n)>>
    ELSE Append(StdToString(n \div 10), DigitChar(n % 10))

\* ------------------------------------------------------------- Request

IntMax == 2147483647

IntMin == (0 - IntMax) - 1

\* the digits of s from position i on, accumulated into acc with the sign
\* given (acc <= 0 when negative); over when the number leaves the int range
RECURSIVE DigitsValue(_, _, _, _)
DigitsValue(s, i, acc, negative) ==
    IF i >= Len(s) \/ ~IsDigit(At(s, i)) THEN [over |-> FALSE, value |-> acc]
    ELSE LET d     == DigitValue(At(s, i))
             slack == IF negative /\ d > 0 THEN d - 1 ELSE d
             fits  == /\ acc # IntMin
                      /\ (IF negative THEN 0 - acc ELSE acc) <= (IntMax - slack) \div 10
         IN  IF ~fits THEN [over |-> TRUE, value |-> 0]
             ELSE DigitsValue(s, i + 1,
                              IF negative THEN acc * 10 - d ELSE acc * 10 + d,
                              negative)

\* std::stoi(s): white space, an optional sign, then digits; it throws
\* std::invalid_argument without a digit and std::out_of_range beyond int
Stoi(s) ==
    LET a    == SkipSpace(s, 0)
        neg  == a < Len(s) /\ At(s, a) = "-"
        b    == IF a < Len(s) /\ At(s, a) \in {"+", "-"} THEN a + 1 ELSE a
        some == b < Len(s) /\ IsDigit(At(s, b))
        n    == DigitsValue(s, b, 0, neg)
    IN  IF ~some \/ n.over THEN [throws |-> TRUE, value |-> 0]
        ELSE [throws |-> FALSE, value |-> n.value]

\* Request::extractUrlComponents: protocol, host and port of the url, and
\* whether std::stoi threw on the text after the ':'
ExtractUrlComponents(url) ==
    LET https       == MatchesAt(url, <<"h", "t", "t", "p", "s", ":", "/", "/">>, 0)
        protocolEnd == FindStr(url, <<":", "/", "/">>, 0)
        hostStart   == IF protocolEnd # -1 THEN protocolEnd + 3 ELSE 0
        portStart   == FindChar(url, ":", hostStart)
        pathStart   == FindChar(url, "/", hostStart)
        defPort     == IF https THEN 443 ELSE 80
        proto       == IF https THEN "HTTPS" ELSE "HTTP"
    IN  IF portStart # -1 /\ (pathStart = -1 \/ portStart < pathStart)
          THEN LET n == Stoi(Substr(url, portStart + 1,
                                    IF pathStart = -1 THEN -1
                                    ELSE pathStart - portStart - 1))
               IN  [protocol |-> proto,
                    host     |-> Substr(url, hostStart, portStart - hostStart),
                    port     |-> IF n.throws THEN defPort ELSE n.value,
                    throws   |-> n.throws]
          ELSE [protocol |-> proto,
                host     |-> IF pathStart # -1
                               THEN Substr(url, hostStart, pathStart - hostStart)
                               ELSE SubstrFrom(url, hostStart),
                port     |-> defPort,
                throws   |-> FALSE]

\* the path Request::parseRequest takes from the url: the part before the
\* first '?', or the whole url
PathOf(url) ==
    LET queryPos == FindChar(url, "?", 0)
    IN  IF queryPos # -1 THEN Substr(url, 0, queryPos) ELSE url

\* Request::parseRequest, the request line: method, url, url components and
\* path; throws when extractUrlComponents let an exception of stoi escape
ParseRequestLine(httpRequest) ==
    LET first  == GetLine(httpRequest, 0)
        m      == ReadWord(first.line, 0)
        u      == ReadWord(first.line, m.next)
        parts  == ExtractUrlComponents(u.word)
    IN  [method   |-> m.word,
         url      |-> u.word,
         protocol |-> parts.protocol,
         host     |-> parts.host,
         port     |-> parts.port,
         path     |-> PathOf(u.word),
         throws   |-> parts.throws]

\* std::getline(stream, line, delim) from position pos
GetLineUntil(s, pos, delim) ==
    IF pos >= Len(s)
      THEN [ok |-> FALSE, line |-> <<>>, next |-> Len(s)]
      ELSE LET d == FindChar(s, delim, pos) IN
           IF d = -1
             THEN [ok |-> TRUE, line |-> SubstrFrom(s, pos), next |-> Len(s)]
             ELSE [ok |-> TRUE, line |-> Substr(s, pos, d - pos), next |-> d + 1]

\* str.find_first_not_of(' ') from position i
RECURSIVE FindFirstNotOf(_, _, _)
FindFirstNotOf(s, c, i) ==
    IF i >= Len(s) THEN -1
    ELSE IF At(s, i) # c THEN i
    ELSE FindFirstNotOf(s, c, i + 1)

\* str.find_last_not_of(' ') from position i downwards
RECURSIVE FindLastNotOf(_, _, _)
FindLastNotOf(s, c, i) ==
    IF i < 0 THEN -1
    ELSE IF At(s, i) # c THEN i
    ELSE FindLastNotOf(s, c, i - 1)

\* Request::trim: the blanks (' ' only) at both ends removed
Trim(str) ==
    LET first == FindFirstNotOf(str, " ", 0)
        last  == FindLastNotOf(str, " ", Len(str) - 1)
    IN  IF first = -1 THEN <<>> ELSE Substr(str, first, last - first + 1)

\* map[key] = value on a std::unordered_map<std::string, std::string>
MapStore(map, key, value) ==
    [k \in (DOMAIN map) \cup {key} |-> IF k = key THEN value ELSE map[k]]

\* it != map.end() ? it->second : ""
MapLookup(map, key) == IF key \in DOMAIN map THEN map[key] ELSE <<>>

\* Request::parseQueryParams: the pairs of queryString from position pos on,
\* stored into query
RECURSIVE ParseQueryParams(_, _, _)
ParseQueryParams(queryString, pos, query) ==
    LET pair == GetLineUntil(queryString, pos, "&") IN
    IF ~pair.ok THEN query
    ELSE LET separator == FindChar(pair.line, "=", 0) IN
         ParseQueryParams(queryString, pair.next,
            IF separator # -1
              THEN MapStore(query, Trim(Substr(pair.line, 0, separator)),
                                   Trim(SubstrFrom(pair.line, separator + 1)))
              ELSE query)

\* the header loop of parseRequest from position pos on: it stops at the
\* first empty line or at the end of the stream (the stream has then failed
\* and nothing is left for the body)
RECURSIVE ParseHeaders(_, _, _)
ParseHeaders(s, pos, headers) ==
    LET headerLine == GetLine(s, pos) IN
    IF ~headerLine.ok THEN [headers |-> headers, next |-> Len(s)]
    ELSE IF headerLine.line = <<>> THEN [headers |-> headers, next |-> headerLine.next]
    ELSE LET separator == FindChar(headerLine.line, ":", 0) IN
         ParseHeaders(s, headerLine.next,
            IF separator # -1
              THEN MapStore(headers, Trim(Substr(headerLine.line, 0, separator)),
                                     Trim(SubstrFrom(headerLine.line, separator + 1)))
              ELSE headers)

\* the body loop of parseRequest: body += remaining + "\n" for every line left
RECURSIVE ParseBody(_, _, _)
ParseBody(s, pos, body) ==
    LET remaining == GetLine(s, pos) IN
    IF ~remaining.ok THEN body
    ELSE ParseBody(s, remaining.next, body \o remaining.line \o <<"\n">>)

\* body.pop_back() when the body is not empty
PopBack(body) == IF body = <<>> THEN body ELSE SubSeq(body, 1, Len(body) - 1)

\* Request::Request(httpRequest): parseRequest as a whole. When stoi throws
\* inside extractUrlComponents the constructor is left at that point, with
\* method and url set and nothing after them.
ParseRequest(httpRequest) ==
    LET first    == GetLine(httpRequest, 0)
        line     == ParseRequestLine(httpRequest)
        queryPos == FindChar(line.url, "?", 0)
        hdrs     == ParseHeaders(httpRequest, first.next, <<>>)
    IN  IF line.throws
          THEN [method |-> line.method, url |-> line.url, path |-> <<>>,
                query |-> <<>>, headers |-> <<>>, body |-> <<>>, throws |-> TRUE]
          ELSE [method  |-> line.method,
                url     |-> line.url,
                path    |-> line.path,
                query   |-> IF queryPos # -1
                              THEN ParseQueryParams(SubstrFrom(line.url, queryPos + 1), 0, <<>>)
                              ELSE <<>>,
                headers |-> hdrs.headers,
                body    |-> PopBack(ParseBody(httpRequest, hdrs.next, <<>>)),
                throws  |-> FALSE]

\* Request::queryParam
QueryParam(req, key) == MapLookup(req.query, key)

\* Request::getHeader
GetHeader(req, key) == MapLookup(req.headers, key)

\* ------------------------------------------------------------- Response

\* Response::Response(): statusCode(200), no header, empty body
NewResponse == [statusCode |-> 200, headers |-> <<>>, body |-> <<>>]

\* Response::status
Status(res, code) == [res EXCEPT !.statusCode = code]

\* headers[key] = value on a std::unordered_map, kept as a function
MapAssign(map, key, value) ==
    [k \in (DOMAIN map) \cup {key} |-> IF k = key THEN value ELSE map[k]]

\* Response::setHeader
SetHeader(res, key, value) ==
    [res EXCEPT !.headers = MapAssign(res.headers, key, value)]

ContentLength == <<"C", "o", "n", "t", "e", "n", "t", "-", "L", "e", "n", "g", "t", "h">>
ContentType   == <<"C", "o", "n", "t", "e", "n", "t", "-", "T", "y", "p", "e">>
TextPlain     == <<"t", "e", "x", "t", "/", "p", "l", "a", "i", "n">>
TextHtml      == <<"t", "e", "x", "t", "/", "h", "t", "m", "l">>
ApplicationJson == <<"a", "p", "p", "l", "i", "c", "a", "t", "i", "o", "n", "/", "j", "s", "o", "n">>
FileNotFound  == <<"F", "i", "l", "e", " ", "n", "o", "t", " ", "f", "o", "u", "n", "d">>
CRLF          == <<"\r", "\n">>

\* Response::send
Send(res, responseBody) ==
    LET r1 == [res EXCEPT !.body = responseBody]
        r2 == SetHeader(r1, ContentLength, StdToString(Len(r1.body)))
    IN  SetHeader(r2, ContentType, TextPlain)

\* a json that sets Content-Length before it assigns the body
JsonWithStaleLength(res, jsonBody) ==
    LET r1 == SetHeader(res, ContentLength, StdToString(Len(res.body)))
        r2 == [r1 EXCEPT !.body = jsonBody]
    IN  SetHeader(r2, ContentType, ApplicationJson)

\* Response::json
Json(res, jsonBody) ==
    LET r1 == [res EXCEPT !.body = jsonBody]
        r2 == SetHeader(r1, ContentLength, StdToString(Len(r1.body)))
    IN  SetHeader(r2, ContentType, ApplicationJson)

\* a readFile that returns an empty string for a file it cannot open
ReadFileOrEmpty(opens, content) == IF opens THEN content ELSE <<>>

\* Response::readFile: the content of the file, or the literal
\* "File not found" when the file cannot be opened
ReadFile(opens, content) == IF opens THEN content ELSE FileNotFound

\* Response::sendFile, for a file that opens or not and holds content
SendFile(res, opens, content) ==
    LET r1 == [res EXCEPT !.body = ReadFile(opens, content)]
        r2 == SetHeader(r1, ContentType, TextHtml)
    IN  SetHeader(r2, ContentLength, StdToString(Len(r1.body)))

\* a status message that is "OK" for every code
StatusMessageAlwaysOK(res) == <<"O", "K">>

\* Response::getStatusMessage
GetStatusMessage(res) ==
    CASE res.statusCode = 200 -> <<"O", "K">>
      [] res.statusCode = 400 -> <<"B", "a", "d", " ", "R", "e", "q", "u", "e", "s", "t">>
      [] res.statusCode = 404 -> <<"N", "o", "t", " ", "F", "o", "u", "n", "d">>
      [] res.statusCode = 500 -> <<"I", "n", "t", "e", "r", "n", "a", "l", " ", "S", "e", "r", "v", "e", "r", " ", "E", "r", "r", "o", "r">>
      [] OTHER -> <<"U", "n", "k", "n", "o", "w", "n", " ", "S", "t", "a", "t", "u", "s">>

\* the orders in which a range-for may visit the entries of the
\* std::unordered_map headers: every key once, in an unspecified order
HeaderOrders(res) ==
    LET keys == DOMAIN res.headers
        n    == Cardinality(keys)
    IN  {o \in [1..n -> keys] : \A k \in keys : \E i \in 1..n : o[i] = k}

\* response << header.first << ": " << header.second << "\r\n" for the
\* entries order[i..]
RECURSIVE HeaderLinesFrom(_, _, _)
HeaderLinesFrom(res, order, i) ==
    IF i > Len(order) THEN <<>>
    ELSE order[i] \o <<":", " ">> \o res.headers[order[i]] \o CRLF
           \o HeaderLinesFrom(res, order, i + 1)

\* Response::toHttpResponse, the bytes, when the map is visited in order
ToHttpResponseBytes(res, order) ==
    <<"H", "T", "T", "P", "/", "1", ".", "1", " ">> \o StdToString(res.statusCode) \o <<" ">> \o GetStatusMessage(res)
      \o CRLF \o HeaderLinesFrom(res, order, 1) \o CRLF \o res.body

\* Response::toHttpResponse, kept in parts: the status line, the headers
\* (each written once, in the map's unspecified order) and the body
ToHttpResponse(res) ==
    [version    |-> "HTTP/1.1",
     statusCode |-> res.statusCode,
     reason     |-> GetStatusMessage(res),
     headers    |-> res.headers,
     body       |-> res.body]

\* ------------------------------------------------------------- App

\* the paths the registering thread uses, as byte strings
PathA == <<"/", "a">>
PathB == <<"/", "b">>
Paths == {PathA, PathB}

\* the byte strings a peer may send in one read
RawRequests ==
    { <<"P", "U", "T", " ", "/", "a", "?", "x", "=", "1", "\n">>,
      <<"G", "E", "T", " ", "/", "b", " ", "H", "\r", "\n", "\r", "\n">>,
      <<"G", "E", "T", " ", "h", ":", "/", "a", "\n">> }

\* Request req(requestStr) for each of them
ParsedRequests == {ParseRequestLine(raw) : raw \in RawRequests}

\* a route handler's effect on the Response it is given
HandlerEffect(h, req, res) ==
    CASE h = "hello"   -> Send(res, <<"h", "i">>)
      [] h = "created" -> Send(Status(res, 200), <<"o", "k">>)
      [] h = "silent"  -> res

\* the get / post calls an application makes, each once
RegCalls ==
    { [method |-> "GET",  path |-> PathA, handler |-> "hello"],
      [method |-> "POST", path |-> PathA, handler |-> "created"],
      [method |-> "POST", path |-> PathB, handler |-> "silent"] }

\* the order in which the thread that registers makes them: one statement
\* after the other, as main does
RegSequence ==
    << [method |-> "GET",  path |-> PathA, handler |-> "hello"],
       [method |-> "POST", path |-> PathA, handler |-> "created"],
       [method |-> "POST", path |-> PathB, handler |-> "silent"] >>

NoCall == [method |-> "", path |-> <<>>, handler |-> "none"]

NotFoundBody == <<"N", "o", "t", " ", "F", "o", "u", "n", "d">>

NoRequest == ParseRequestLine(<<>>)

InitApp ==
    /\ acceptorPc = "create"
    /\ serverSocket = "unset"
    /\ clientSocket = 0
    /\ onStartCalls = 0
    /\ routes = <<>>
    /\ routesMutex = Free
    /\ regDone = {}
    /\ regArgs = NoCall
    /\ terminated = FALSE
    /\ wreq = [w \in Workers |-> NoRequest]
    /\ wres = [w \in Workers |-> NewResponse]
    /\ wfound = [w \in Workers |-> "none"]
    /\ wsent = [w \in Workers |-> <<>>]
    /\ winvoked = [w \in Workers |-> <<>>]
    /\ wexpected = [w \in Workers |-> "unknown"]
    /\ lastReg = [p \in Paths |-> "none"]
    /\ regMethods = [p \in Paths |-> {}]
    /\ readResult = [c \in Ids |-> "none"]
    /\ reads = [c \in Ids |-> 0]
    /\ sends = [c \in Ids |-> 0]
    /\ closes = [c \in Ids |-> 0]
    /\ cerr = <<>>

\* ---- App::listen

\* a listen that carries on with the next stage after a failed one
FallThrough(nextStage) == nextStage

\* where listen goes after a failed stage: return; whatever the stage was
AfterSetupFailure(nextStage) == "returned"

\* a listen that enters the accept loop without invoking onStart
StraightToAccept == "accept"

\* where listen goes after ::listen succeeded: if (onStart) onStart();
AfterListenSucceeded == "onStart"

\* what listen writes when one of the three helpers returned false
InitFailedMsg == "Failed to initialize server socket"

\* createServerSocket(): socket() succeeds or fails
CreateServerSocket ==
    /\ ~terminated
    /\ UNCHANGED inputVars
    /\ UNCHANGED orderVars
    /\ acceptorPc = "create"
    /\ \E ok \in BOOLEAN :
         IF ok THEN /\ serverSocket' = "open"
                    /\ acceptorPc' = "configure"
                    /\ UNCHANGED cerr
               ELSE /\ acceptorPc' = AfterSetupFailure("configure")
                    /\ cerr' = cerr \o <<"Could not create socket", InitFailedMsg>>
                    /\ UNCHANGED serverSocket
    /\ UNCHANGED <<poolVars, clientSocket, onStartCalls, routeVars, reqVars,
                   connVars, terminated>>

\* configureServerSocket(): setsockopt succeeds, or fails and the socket is closed
ConfigureServerSocket ==
    /\ ~terminated
    /\ UNCHANGED inputVars
    /\ UNCHANGED orderVars
    /\ acceptorPc = "configure"
    /\ \E ok \in BOOLEAN :
         IF ok THEN /\ acceptorPc' = "bind"
                    /\ UNCHANGED <<serverSocket, cerr>>
               ELSE /\ serverSocket' = "closed"
                    /\ cerr' = cerr \o <<"Could not set socket options", InitFailedMsg>>
                    /\ acceptorPc' = AfterSetupFailure("bind")
    /\ UNCHANGED <<poolVars, clientSocket, onStartCalls, routeVars, reqVars,
                   connVars, terminated>>

\* bindServerSocket(port): bind succeeds, or fails and the socket is closed
BindServerSocket ==
    /\ ~terminated
    /\ UNCHANGED inputVars
    /\ UNCHANGED orderVars
    /\ acceptorPc = "bind"
    /\ \E ok \in BOOLEAN :
         IF ok THEN /\ acceptorPc' = "listen"
                    /\ UNCHANGED <<serverSocket, cerr>>
               ELSE /\ serverSocket' = "closed"
                    /\ cerr' = cerr \o <<"Bind failed", InitFailedMsg>>
                    /\ acceptorPc' = AfterSetupFailure("listen")
    /\ UNCHANGED <<poolVars, clientSocket, onStartCalls, routeVars, reqVars,
                   connVars, terminated>>

\* ::listen(serverSocket, 5) succeeds, or fails and the socket is closed
Listen ==
    /\ ~terminated
    /\ UNCHANGED inputVars
    /\ UNCHANGED orderVars
    /\ acceptorPc = "listen"
    /\ \E ok \in BOOLEAN :
         IF ok THEN /\ acceptorPc' = AfterListenSucceeded
                    /\ UNCHANGED <<serverSocket, cerr>>
               ELSE /\ serverSocket' = "closed"
                    /\ cerr' = Append(cerr, "Listen failed")
                    /\ acceptorPc' = AfterSetupFailure("onStart")
    /\ UNCHANGED <<poolVars, clientSocket, onStartCalls, routeVars, reqVars,
                   connVars, terminated>>

\* if (onStart) onStart();
OnStart ==
    /\ ~terminated
    /\ UNCHANGED inputVars
    /\ UNCHANGED cerr
    /\ UNCHANGED orderVars
    /\ acceptorPc = "onStart"
    /\ onStartCalls' = onStartCalls + 1
    /\ acceptorPc' = "accept"
    /\ UNCHANGED <<poolVars, serverSocket, clientSocket, routeVars, reqVars,
                   connVars, terminated>>

\* where the accept loop goes after accept returned an error: while (true)
\* has no exit, it calls accept again
AfterAcceptError == "accept"

\* One iteration of while (true):
\*   int clientSocket = accept(serverSocket, nullptr, nullptr);
\*     a new connection on an open listening socket, or an error (always an
\*     error once the listening socket is closed)
\*   if (clientSocket >= 0) threadPool.enqueue([this, clientSocket] {...});
\* The server sees enqueue as one step: the task is in the queue when it
\* returns (its steps are EnqLock, EnqPush and EnqNotify of the pool).
Accept ==
    /\ ~terminated
    /\ UNCHANGED inputVars
    /\ UNCHANGED cerr
    /\ UNCHANGED orderVars
    /\ acceptorPc = "accept"
    /\ \/ /\ serverSocket = "open"
          /\ nextId <= MaxConns
          /\ clientSocket' = nextId
          /\ nextId' = nextId + 1
          /\ tasks' = Emplace(tasks, nextId)
          /\ UNCHANGED acceptorPc
       \/ /\ clientSocket' = -1
          /\ acceptorPc' = AfterAcceptError
          /\ UNCHANGED <<nextId, tasks>>
    /\ UNCHANGED <<stop, queueMutex, dtorPc, joined, enqPc, enqTask, wpc, wtask,
                   execCount, histVars, serverSocket, onStartCalls, routeVars,
                   reqVars, connVars, terminated>>

\* The worker loop as the server sees it, one step from the top of the loop
\* to the task in hand (WorkerLock and WorkerWait of the pool): a worker
\* whose wait predicate is false stays where it is.
WorkerTake(w) ==
    /\ ~terminated
    /\ UNCHANGED inputVars
    /\ UNCHANGED cerr
    /\ UNCHANGED orderVars
    /\ wpc[w] = "loop"
    /\ queueMutex = Free
    /\ WaitPredicate
    /\ IF WorkerExits
         THEN /\ wpc' = [wpc EXCEPT ![w] = "exited"]
              /\ UNCHANGED <<tasks, wtask, started>>
         ELSE /\ wtask' = [wtask EXCEPT ![w] = Head(tasks)]
              /\ tasks' = Pop(tasks)
              /\ started' = started \cup {Head(tasks)}
              /\ wpc' = [wpc EXCEPT ![w] = "run"]
    /\ UNCHANGED <<stop, queueMutex, enqPc, enqTask, nextId, dtorPc, joined,
                   execCount, afterStop, queuedAtStop, enqOutcome,
                   pushedBeforeStop, appVars>>

\* stop(), which App does not have: another thread closes the listening
\* socket while listen is blocked in accept
StopServer ==
    /\ ~terminated
    /\ UNCHANGED inputVars
    /\ UNCHANGED cerr
    /\ UNCHANGED orderVars
    /\ acceptorPc = "accept"
    /\ serverSocket = "open"
    /\ serverSocket' = "closed"
    /\ UNCHANGED <<poolVars, acceptorPc, clientSocket, onStartCalls, routeVars,
                   reqVars, connVars, terminated>>

\* ---- App::get / App::post

\* a registration that does not wait for the route lock
RegLockFreeAlways == TRUE

\* std::lock_guard<std::mutex> lock(routesMutex) in get / post can proceed
RegLockFree == routesMutex = Free

\* a table keyed by method and path
RouteKeyWithMethod(method, path) == <<method, path>>

\* the key get / post store the handler under: the path, for both of them
RouteKey(method, path) == path

\* a registration that keeps an existing entry (insert instead of operator[])
RoutesInsert(map, key, handler) ==
    IF key \in DOMAIN map THEN map ELSE MapAssign(map, key, handler)

\* routes[path] = handler
RoutesAssign(map, key, handler) == MapAssign(map, key, handler)

\* the call the registering thread makes next: the first of its sequence
\* that it has not made
NextRegCalls ==
    {RegSequence[i] : i \in {j \in 1..Len(RegSequence) :
                                /\ RegSequence[j] \notin regDone
                                /\ \A k \in 1..(j - 1) : RegSequence[k] \in regDone}}

\* another thread calls app.get(path, handler) or app.post(path, handler):
\*   std::lock_guard<std::mutex> lock(routesMutex);
RegLock ==
    /\ ~terminated
    /\ UNCHANGED inputVars
    /\ UNCHANGED cerr
    /\ UNCHANGED orderVars
    /\ regArgs = NoCall
    /\ RegLockFree
    /\ \E call \in NextRegCalls : regArgs' = call
    /\ routesMutex' = Registrar
    /\ UNCHANGED <<poolVars, acceptVars, routes, regDone, lastReg, regMethods,
                   reqVars, connVars, terminated>>

\*   routes[path] = handler;   and the lock's scope ends
RegAssign ==
    /\ ~terminated
    /\ UNCHANGED inputVars
    /\ UNCHANGED cerr
    /\ UNCHANGED orderVars
    /\ regArgs # NoCall
    /\ routes' = RoutesAssign(routes, RouteKey(regArgs.method, regArgs.path),
                              regArgs.handler)
    /\ routesMutex' = Free
    /\ regDone' = regDone \cup {regArgs}
    /\ lastReg' = [lastReg EXCEPT ![regArgs.path] = regArgs.handler]
    /\ regMethods' = [regMethods EXCEPT ![regArgs.path] = @ \cup {regArgs.method}]
    /\ regArgs' = NoCall
    /\ UNCHANGED <<poolVars, acceptVars, reqVars, connVars, terminated>>

Register ==
    \/ RegLock
    \/ RegAssign

\* ---- App::handleRequest, run by a worker as its task

\* ssize_t bytesRead = read(clientSocket, buffer, BUFFER_SIZE): -1 on failure,
\* otherwise the number of bytes placed in the buffer
ReadReturns == {-1, 1}

\* a read whose failure is not noticed
ReadNeverFails(bytesRead) == FALSE

\* if (bytesRead < 0)
ReadFails(bytesRead) == bytesRead < 0

\* std::string requestStr(buffer); Request req(requestStr): the buffer was
\* zero-filled, so a read that stored nothing leaves the empty string
RequestsRead(bytesRead) ==
    IF bytesRead < 0 THEN {ParseRequest(<<>>)} ELSE ParsedRequests

\* a response left as Response() constructs it
ConstructedResponse == NewResponse

\* Response res; res.statusCode = 404;
DefaultResponse == Status(NewResponse, 404)

\* ssize_t bytesRead = read(clientSocket, buffer, BUFFER_SIZE);
\* if (bytesRead < 0) { std::cerr << "Read failed\n"; close(clientSocket); return; }
\* otherwise Request req(requestStr), Response res, res.statusCode = 404.
\* An exception of std::stoi leaves the thread's function: std::terminate.
HR_Read(w) ==
    /\ ~terminated
    /\ UNCHANGED inputVars
    /\ UNCHANGED orderVars
    /\ wpc[w] = "run"
    /\ reads' = [reads EXCEPT ![wtask[w]] = @ + 1]
    /\ \E bytesRead \in ReadReturns :
         /\ readResult' = [readResult EXCEPT ![wtask[w]] =
                              IF bytesRead < 0 THEN "failed" ELSE "ok"]
         /\ IF ReadFails(bytesRead)
              THEN /\ closes' = [closes EXCEPT ![wtask[w]] = @ + 1]
                   /\ execCount' = [execCount EXCEPT ![wtask[w]] = @ + 1]
                   /\ wtask' = [wtask EXCEPT ![w] = 0]
                   /\ wpc' = [wpc EXCEPT ![w] = "loop"]
                   /\ cerr' = Append(cerr, "Read failed")
                   /\ UNCHANGED <<wreq, wres, terminated>>
              ELSE /\ \E req \in RequestsRead(bytesRead) :
                        IF req.throws
                          THEN /\ terminated' = TRUE
                               /\ UNCHANGED <<wpc, wreq, wres>>
                          ELSE /\ wreq' = [wreq EXCEPT ![w] = req]
                               /\ wres' = [wres EXCEPT ![w] = DefaultResponse]
                               /\ wpc' = [wpc EXCEPT ![w] = "lookup"]
                               /\ UNCHANGED terminated
                   /\ UNCHANGED <<closes, execCount, wtask, cerr>>
    /\ UNCHANGED <<queueVars, enqVars, histVars, acceptVars, routeVars, wfound,
                   wsent, winvoked, wexpected, sends>>

\* a dispatch that does not wait for the route lock
RouteLockFreeAlways == TRUE

\* std::lock_guard<std::mutex> lock(routesMutex) in handleRequest can proceed
RouteLockFree == routesMutex = Free

\* routes.find(req.path): the handler stored under the path, "none" for end()
RoutesFind(map, req) ==
    IF req.path \in DOMAIN map THEN map[req.path] ELSE "none"

\* std::lock_guard<std::mutex> lock(routesMutex);
\* auto it = routes.find(req.path); if (it != routes.end()) ... and, for
\* routes.end(), the lock's scope ends at once
HR_Lookup(w) ==
    /\ ~terminated
    /\ UNCHANGED inputVars
    /\ UNCHANGED cerr
    /\ UNCHANGED orderVars
    /\ wpc[w] = "lookup"
    /\ RouteLockFree
    /\ LET h == RoutesFind(routes, wreq[w]) IN
       /\ wfound' = [wfound EXCEPT ![w] = h]
       /\ IF h # "none"
            THEN /\ wpc' = [wpc EXCEPT ![w] = "handler"]
                 /\ routesMutex' = W(w)
            ELSE /\ wpc' = [wpc EXCEPT ![w] = "send"]
                 /\ routesMutex' = Free
    /\ wexpected' = [wexpected EXCEPT ![w] =
                       IF wreq[w].path \in Paths THEN lastReg[wreq[w].path]
                                                 ELSE "none"]
    /\ UNCHANGED <<queueVars, wtask, enqVars, execCount, histVars, acceptVars,
                   routes, regDone, regArgs, lastReg, regMethods, wreq, wres, wsent,
                   winvoked, connVars, terminated>>

\* it->second(req, res): the handler runs to its end with the route lock
\* held, then the lock's scope ends
HR_Handler(w) ==
    /\ ~terminated
    /\ UNCHANGED inputVars
    /\ UNCHANGED cerr
    /\ UNCHANGED orderVars
    /\ wpc[w] = "handler"
    /\ wres' = [wres EXCEPT ![w] = HandlerEffect(wfound[w], wreq[w], wres[w])]
    /\ winvoked' = [winvoked EXCEPT ![w] = Append(@, wfound[w])]
    /\ routesMutex' = Free
    /\ wpc' = [wpc EXCEPT ![w] = "send"]
    /\ UNCHANGED <<queueVars, wtask, enqVars, execCount, histVars, acceptVars,
                   routes, regDone, regArgs, lastReg, regMethods, wreq, wfound, wsent,
                   wexpected, connVars, terminated>>

\* a fallback that leaves the response as the handler left it
FallbackNone(res) == res

\* a fallback that fills in the body and keeps the status the handler set
FallbackKeepStatus(res) ==
    IF res.body = <<>> THEN Send(res, NotFoundBody) ELSE res

\* if (res.body.empty()) res.status(404).send("Not Found");
Fallback(res) ==
    IF res.body = <<>> THEN Send(Status(res, 404), NotFoundBody) ELSE res

\* the fallback, then
\* send(clientSocket, res.toHttpResponse().c_str(), res.toHttpResponse().size(), 0)
HR_Send(w) ==
    /\ ~terminated
    /\ UNCHANGED inputVars
    /\ UNCHANGED cerr
    /\ UNCHANGED orderVars
    /\ wpc[w] = "send"
    /\ wres' = [wres EXCEPT ![w] = Fallback(wres[w])]
    /\ sends' = [sends EXCEPT ![wtask[w]] = @ + 1]
    /\ wsent' = [wsent EXCEPT ![w] = Append(@, ToHttpResponse(Fallback(wres[w])))]
    /\ wpc' = [wpc EXCEPT ![w] = "close"]
    /\ UNCHANGED <<queueVars, wtask, enqVars, execCount, histVars, acceptVars,
                   routeVars, wreq, wfound, winvoked, wexpected, readResult,
                   reads, closes, terminated>>

\* close(clientSocket); handleRequest returns, its locals are gone, and the
\* worker loops
HR_Close(w) ==
    /\ ~terminated
    /\ UNCHANGED inputVars
    /\ UNCHANGED cerr
    /\ UNCHANGED orderVars
    /\ wpc[w] = "close"
    /\ closes' = [closes EXCEPT ![wtask[w]] = @ + 1]
    /\ execCount' = [execCount EXCEPT ![wtask[w]] = @ + 1]
    /\ wreq' = [wreq EXCEPT ![w] = NoRequest]
    /\ wres' = [wres EXCEPT ![w] = NewResponse]
    /\ wfound' = [wfound EXCEPT ![w] = "none"]
    /\ wsent' = [wsent EXCEPT ![w] = <<>>]
    /\ winvoked' = [winvoked EXCEPT ![w] = <<>>]
    /\ wexpected' = [wexpected EXCEPT ![w] = "unknown"]
    /\ wtask' = [wtask EXCEPT ![w] = 0]
    /\ wpc' = [wpc EXCEPT ![w] = "loop"]
    /\ UNCHANGED <<queueVars, enqVars, histVars, acceptVars, routeVars,
                   readResult, reads, sends, terminated>>

HandleRequest(w) ==
    \/ HR_Read(w)
    \/ HR_Lookup(w)
    \/ HR_Handler(w)
    \/ HR_Send(w)
    \/ HR_Close(w)

ListenSetup ==
    \/ CreateServerSocket
    \/ ConfigureServerSocket
    \/ BindServerSocket
    \/ Listen
    \/ OnStart

\* the server; no action is enabled once the process has terminated
Next ==
    \/ ListenSetup
    \/ Accept
    \/ StopServer
    \/ \E w \in Workers : WorkerTake(w)
    \/ \E w \in Workers : HandleRequest(w)
    \/ Register

\* a Request whose constructor has not run
EmptyRequest ==
    [method |-> <<>>, url |-> <<>>, path |-> <<>>, query |-> <<>>,
     headers |-> <<>>, body |-> <<>>, throws |-> FALSE]

\* no Request is constructed on its own
NoParts == [target |-> <<>>, eol |-> <<>>, headerLines |-> <<>>, body |-> <<>>]

InitNoParse ==
    /\ reqParts = NoParts
    /\ requestBytes = <<>>
    /\ request = EmptyRequest
    /\ parsePc = "input"

\* Response res;
InitResponse ==
    /\ response = NewResponse
    /\ resCalls = <<>>
    /\ httpResponse = <<>>
    /\ resPc = "building"

\* the pool the server and the pool's own runs are built with:
\* ThreadPool(NumWorkers)
Init ==
    numThreads = NumWorkers /\ InitPool /\ InitApp /\ InitNoParse /\ InitResponse

Spec == Init /\ [][Next]_vars

SpecPool == Init /\ [][NextPool]_vars

\* ------------------------------------------------------------- fairness
\* Every thread that can take a step is eventually scheduled, a thread that
\* holds or waits for a mutex included, and every task terminates.
\* Nothing is assumed about spurious wake-ups, about a client calling
\* enqueue, or about the owner destroying the pool.
\* (Every step of the pool changes one of the pool's variables.)
PoolFairness ==
    /\ \A w \in Workers :
          /\ WF_poolVars(WorkerLock(w))
          /\ WF_poolVars(WorkerWait(w))
          /\ WF_poolVars(WorkerReacquire(w))
          /\ WF_poolVars(WorkerRunTask(w))
    /\ WF_poolVars(EnqLock)
    /\ WF_poolVars(EnqPush)
    /\ WF_poolVars(EnqNotify)
    /\ WF_poolVars(DtorSetStop)
    /\ WF_poolVars(DtorNotifyAll)

SpecPoolFair == Init /\ [][NextPool]_vars /\ PoolFairness

\* ---- the server with a pool of any size and peers that may never send
\* App(size_t ThreadCount) with ThreadCount from 1 to NumWorkers, no route
\* registered, nobody closing the listening socket.
InitSizes ==
    /\ numThreads \in 1..NumWorkers
    /\ InitPool /\ InitApp /\ InitNoParse /\ InitResponse

NextStall ==
    \/ ListenSetup
    \/ Accept
    \/ \E w \in Workers : WorkerTake(w)
    \/ \E w \in Workers : HR_Read(w)
    \/ \E w \in Workers : HR_Lookup(w)
    \/ \E w \in Workers : HR_Send(w)
    \/ \E w \in Workers : HR_Close(w)

SpecStall == InitSizes /\ [][NextStall]_vars

\* Every worker thread that can take a step of its own is eventually
\* scheduled. Nothing is assumed about the peers: read(clientSocket, ...)
\* returns when the peer has sent, closed or failed, which may be never, and
\* accept returns when a peer connects.
StallFairness ==
    \A w \in Workers :
        /\ WF_vars(WorkerTake(w))
        /\ WF_vars(HR_Lookup(w))
        /\ WF_vars(HR_Send(w))
        /\ WF_vars(HR_Close(w))

SpecStallFair == SpecStall /\ StallFairness

\* the pool as a component, built with every size from 1 to NumWorkers
SpecPoolSizes == InitSizes /\ [][NextPool]_vars

\* ---- the server with the steps of the pool's mutex: the acceptor's
\* enqueue and the workers' loop take and release queueMutex step by step,
\* and a route is registered before listen is called, as main does

\* app.get("/a", hello);
RegisteredFirst == [method |-> "GET", path |-> PathA, handler |-> "hello"]

\* routes after the registration calls i.. of the sequence, made in order
RECURSIVE RoutesAfter(_, _, _)
RoutesAfter(map, calls, i) ==
    IF i > Len(calls) THEN map
    ELSE RoutesAfter(RoutesAssign(map, RouteKey(calls[i].method, calls[i].path),
                                  calls[i].handler),
                     calls, i + 1)

\* the App after main has made the registration calls, in order, and before
\* it calls listen
InitAppRegistered(calls) ==
    /\ acceptorPc = "create"
    /\ serverSocket = "unset"
    /\ clientSocket = 0
    /\ onStartCalls = 0
    /\ routes = RoutesAfter(<<>>, calls, 1)
    /\ routesMutex = Free
    /\ regDone = Range(calls)
    /\ regArgs = NoCall
    /\ terminated = FALSE
    /\ wreq = [w \in Workers |-> NoRequest]
    /\ wres = [w \in Workers |-> NewResponse]
    /\ wfound = [w \in Workers |-> "none"]
    /\ wsent = [w \in Workers |-> <<>>]
    /\ winvoked = [w \in Workers |-> <<>>]
    /\ wexpected = [w \in Workers |-> "unknown"]
    /\ lastReg = [p \in Paths |->
                    LET at == {i \in 1..Len(calls) : calls[i].path = p}
                    IN  IF at = {} THEN "none"
                        ELSE calls[CHOOSE i \in at : \A j \in at : j <= i].handler]
    /\ regMethods = [p \in Paths |->
                       {calls[i].method : i \in {j \in 1..Len(calls) : calls[j].path = p}}]
    /\ readResult = [c \in Ids |-> "none"]
    /\ reads = [c \in Ids |-> 0]
    /\ sends = [c \in Ids |-> 0]
    /\ closes = [c \in Ids |-> 0]
    /\ cerr = <<>>

InitLocks ==
    /\ numThreads \in 1..NumWorkers
    /\ InitPool
    /\ InitAppRegistered(<<RegisteredFirst>>)
    /\ InitNoParse
    /\ InitResponse

\* One iteration of while (true), up to the call of enqueue:
\*   int clientSocket = accept(serverSocket, nullptr, nullptr);
\*   if (clientSocket >= 0) threadPool.enqueue([this, clientSocket] {...});
\* enqueue then goes through EnqLock, EnqPush and EnqNotify, and the next
\* iteration starts when it has returned.
AcceptConnection ==
    /\ ~terminated
    /\ UNCHANGED inputVars
    /\ UNCHANGED cerr
    /\ UNCHANGED orderVars
    /\ acceptorPc = "accept"
    /\ enqPc = "idle"
    /\ \/ /\ serverSocket = "open"
          /\ nextId <= MaxConns
          /\ clientSocket' = nextId
          /\ nextId' = nextId + 1
          /\ enqPc' = "lock"
          /\ enqTask' = nextId
          /\ UNCHANGED acceptorPc
       \/ /\ clientSocket' = -1
          /\ acceptorPc' = AfterAcceptError
          /\ UNCHANGED <<nextId, enqPc, enqTask>>
    /\ UNCHANGED <<queueVars, wpc, wtask, execCount, histVars, serverSocket,
                   onStartCalls, routeVars, reqVars, connVars, terminated>>

NextLocks ==
    \/ ListenSetup
    \/ AcceptConnection
    \/ EnqLock
    \/ EnqPush
    \/ EnqNotify
    \/ \E w \in Workers : WorkerLock(w)
    \/ \E w \in Workers : WorkerSpuriousWake(w)
    \/ \E w \in Workers : WorkerReacquire(w)
    \/ \E w \in Workers : WorkerWait(w)
    \/ \E w \in Workers : HandleRequest(w)

SpecLocks == InitLocks /\ [][NextLocks]_vars

\* ---- a handler that registers a route on the App that is dispatching it:
\*   app.get("/a", [&app](const Request&, Response&) { app.get("/b", hello); });

\* the registrations main makes before listen: the last one replaces the
\* handlers of the first two
RegistersOnDispatch == [method |-> "GET", path |-> PathA, handler |-> "reenter"]

RegisteredBeforeListen ==
    << [method |-> "GET", path |-> PathA, handler |-> "hello"],
       [method |-> "POST", path |-> PathA, handler |-> "created"],
       RegistersOnDispatch >>

\* the registration the handler makes
RegisteredByHandler == [method |-> "GET", path |-> PathB, handler |-> "hello"]

InitReentrant ==
    /\ numThreads = NumWorkers
    /\ InitPool
    /\ InitAppRegistered(RegisteredBeforeListen)
    /\ InitNoParse
    /\ InitResponse

\* a blocked lock() that gives the mutex up
RelockReleases(w) == Free

\* the owner of routesMutex while its owner is blocked in a second lock()
RelockHolder(w) == W(w)

\* The handler calls app.get: std::lock_guard<std::mutex> lock(routesMutex)
\* on the thread that owns routesMutex. Locking a std::mutex the thread
\* already owns is undefined behaviour; what builds do is one of
\*   - block in lock() for ever,
\*   - throw std::system_error (resource_deadlock_would_occur), which no
\*     frame catches: std::terminate,
\*   - let the lock through (a mutex that does not track its owner): the
\*     route is stored, the handler returns and both guards unlock.
HR_Reenter(w) ==
    /\ ~terminated
    /\ UNCHANGED inputVars
    /\ UNCHANGED cerr
    /\ UNCHANGED orderVars
    /\ wpc[w] = "handler"
    /\ wfound[w] = "reenter"
    /\ winvoked' = [winvoked EXCEPT ![w] = Append(@, wfound[w])]
    /\ \/ /\ wpc' = [wpc EXCEPT ![w] = "relock"]
          /\ routesMutex' = RelockHolder(w)
          /\ UNCHANGED <<routes, regDone, lastReg, regMethods, terminated>>
       \/ /\ terminated' = TRUE
          /\ UNCHANGED <<wpc, routes, routesMutex, regDone, lastReg, regMethods>>
       \/ LET call == RegisteredByHandler IN
          /\ routes' = RoutesAssign(routes, RouteKey(call.method, call.path),
                                    call.handler)
          /\ regDone' = regDone \cup {call}
          /\ lastReg' = [lastReg EXCEPT ![call.path] = call.handler]
          /\ regMethods' = [regMethods EXCEPT ![call.path] = @ \cup {call.method}]
          /\ routesMutex' = Free
          /\ wpc' = [wpc EXCEPT ![w] = "send"]
          /\ UNCHANGED terminated
    /\ UNCHANGED <<queueVars, wtask, enqVars, execCount, histVars, acceptVars,
                   regArgs, wreq, wres, wfound, wsent, wexpected, connVars>>

\* a handler that does not touch the App
HR_PlainHandler(w) ==
    /\ wfound[w] # "reenter"
    /\ HR_Handler(w)

NextReentrant ==
    \/ ListenSetup
    \/ Accept
    \/ \E w \in Workers : WorkerTake(w)
    \/ \E w \in Workers : HR_Read(w)
    \/ \E w \in Workers : HR_Lookup(w)
    \/ \E w \in Workers : HR_PlainHandler(w)
    \/ \E w \in Workers : HR_Reenter(w)
    \/ \E w \in Workers : HR_Send(w)
    \/ \E w \in Workers : HR_Close(w)
    \/ Register

SpecReentrant == InitReentrant /\ [][NextReentrant]_vars

\* ---- Request(httpRequest) on its own, for the requests a peer can put
\* together from the parts below

MaxHeaderLines == 2    \* header lines of one request

\* the target of the example: /search?q=test&x= y  with its blanks
SearchTarget == <<"/", "s", "e", "a", "r", "c", "h", "?", "q", "=", "t", "e", "s", "t", "&", "x", "=", " ", "y", " ">>

Targets ==
    { SearchTarget,
      <<"/", "s", "?", "a", "=", "1", "&", "a", "=", "2">>,
      <<"/", "s", "?", "k", "=", "a", "=", "b", "&", "n">>,
      <<"/", "p">>,
      <<"h", ":", "/", "a">> }

\* line ends: bare LF, and the CRLF of HTTP
LineEnds == { <<"\n">>, <<"\r", "\n">> }

\* header fields as <<name, what follows the colon>>
HeaderFields ==
    { <<<<"A">>, <<" ", "1">>>>,
      <<<<"A">>, <<"2", " ">>>>,
      <<<<"B">>, <<"x">>>> }

HeaderBlocks == UNION {[1..n -> HeaderFields] : n \in 0..MaxHeaderLines}

Bodies == { <<>>, <<"A", ":", " ", "9">>, <<"b", "\n">> }

RequestParts ==
    [target : Targets, eol : LineEnds, headerLines : HeaderBlocks, body : Bodies]

\* the header lines i.. of the parts, each "name:value" and its line end
RECURSIVE HeaderBytes(_, _)
HeaderBytes(parts, i) ==
    IF i > Len(parts.headerLines) THEN <<>>
    ELSE parts.headerLines[i][1] \o <<":">> \o parts.headerLines[i][2]
           \o parts.eol \o HeaderBytes(parts, i + 1)

\* the bytes of the request: request line, header lines, empty line, body
Assemble(parts) ==
    <<"G", "E", "T", " ">> \o parts.target \o <<" ", "H", "T", "T", "P", "/", "1", ".", "1">> \o parts.eol
      \o HeaderBytes(parts, 1) \o parts.eol \o parts.body

InitParse ==
    /\ numThreads = NumWorkers
    /\ InitPool
    /\ InitApp
    /\ reqParts \in RequestParts
    /\ requestBytes = Assemble(reqParts)
    /\ request = EmptyRequest
    /\ parsePc = "input"
    /\ InitResponse

\* Request req(requestBytes)
ConstructRequest ==
    /\ parsePc = "input"
    /\ request' = ParseRequest(requestBytes)
    /\ parsePc' = "parsed"
    /\ UNCHANGED <<poolVars, appVars, cerr, orderVars, numThreads, reqParts,
                   requestBytes, responseVars>>

NextParse == ConstructRequest

SpecParse == InitParse /\ [][NextParse]_vars

\* ---- Response on its own: a chain of calls on one Response object, ended
\* by toHttpResponse()

MaxCalls == 3    \* calls made on the Response before it is serialized

\* arguments of status
Codes == {200, 201, 400, 404, 500}

\* arguments of setHeader, as <<key, value>>
HeaderArgs ==
    { <<<<"X">>, <<"y">>>>,
      <<<<"X">>, <<"z">>>>,
      <<ContentType, <<"a", "/", "b">>>> }

\* arguments of send and of json
SendBodies == { <<>>, <<"h", "i">> }
JsonBodies == { <<"{", "}">> }

\* what the file at the path given to sendFile holds, when it can be opened
FileContents == { <<"<", "p", ">">> }

\* one call on the Response: value is the second argument of setHeader, the
\* body given to send or json, or the content of the file of sendFile
Call(op, code, key, value, opens) ==
    [op |-> op, code |-> code, key |-> key, value |-> value, opens |-> opens]

MoreCalls == resPc = "building" /\ Len(resCalls) < MaxCalls

ResponseFrame ==
    UNCHANGED <<poolVars, appVars, orderVars, numThreads, parseVars,
                httpResponse, resPc>>

\* res.status(code)
CallStatus ==
    /\ MoreCalls
    /\ \E code \in Codes :
          /\ response' = Status(response, code)
          /\ resCalls' = Append(resCalls, Call("status", code, <<>>, <<>>, TRUE))
    /\ UNCHANGED cerr
    /\ ResponseFrame

\* res.setHeader(key, value)
CallSetHeader ==
    /\ MoreCalls
    /\ \E kv \in HeaderArgs :
          /\ response' = SetHeader(response, kv[1], kv[2])
          /\ resCalls' = Append(resCalls, Call("setHeader", 0, kv[1], kv[2], TRUE))
    /\ UNCHANGED cerr
    /\ ResponseFrame

\* res.send(responseBody)
CallSend ==
    /\ MoreCalls
    /\ \E b \in SendBodies :
          /\ response' = Send(response, b)
          /\ resCalls' = Append(resCalls, Call("send", 0, <<>>, b, TRUE))
    /\ UNCHANGED cerr
    /\ ResponseFrame

\* res.json(jsonBody)
CallJson ==
    /\ MoreCalls
    /\ \E b \in JsonBodies :
          /\ response' = Json(response, b)
          /\ resCalls' = Append(resCalls, Call("json", 0, <<>>, b, TRUE))
    /\ UNCHANGED cerr
    /\ ResponseFrame

\* res.sendFile(filePath): the file opens or it does not; readFile writes
\* to std::cerr when it does not
CallSendFile ==
    /\ MoreCalls
    /\ \E opens \in BOOLEAN, content \in FileContents :
          /\ response' = SendFile(response, opens, content)
          /\ resCalls' = Append(resCalls,
                 Call("sendFile", 0, <<>>, IF opens THEN content ELSE <<>>, opens))
          /\ cerr' = IF opens THEN cerr ELSE Append(cerr, "Could not open file")
    /\ ResponseFrame

\* res.toHttpResponse()
Serialize ==
    /\ resPc = "building"
    /\ \E order \in HeaderOrders(response) :
          httpResponse' = ToHttpResponseBytes(response, order)
    /\ resPc' = "serialized"
    /\ UNCHANGED <<poolVars, appVars, cerr, orderVars, numThreads, parseVars,
                   response, resCalls>>

NextResponse ==
    \/ CallStatus
    \/ CallSetHeader
    \/ CallSend
    \/ CallJson
    \/ CallSendFile
    \/ Serialize

SpecResponse == Init /\ [][NextResponse]_vars

\* ---- handleRequest around the handler it dispatches to: the Response it
\* hands over, the calls the handler makes on it, and what is sent once the
\* handler has returned

\* Response res; res.statusCode = 404; before the route is looked up
InitDispatch ==
    /\ numThreads = NumWorkers
    /\ InitPool
    /\ InitApp
    /\ InitNoParse
    /\ response = DefaultResponse
    /\ resCalls = <<>>
    /\ httpResponse = <<>>
    /\ resPc = "building"

\* the handler has returned (or none was found):
\* if (res.body.empty()) res.status(404).send("Not Found");
\* send(clientSocket, res.toHttpResponse().c_str(), ...)
RespondAfterHandler ==
    /\ resPc = "building"
    /\ LET res == Fallback(response)
       IN  /\ response' = res
           /\ \E order \in HeaderOrders(res) :
                 httpResponse' = ToHttpResponseBytes(res, order)
    /\ resPc' = "sent"
    /\ UNCHANGED <<poolVars, appVars, cerr, orderVars, numThreads, parseVars,
                   resCalls>>

NextDispatch ==
    \/ CallStatus
    \/ CallSetHeader
    \/ CallSend
    \/ CallJson
    \/ CallSendFile
    \/ RespondAfterHandler

SpecDispatch == InitDispatch /\ [][NextDispatch]_vars

\* ------------------------------------------------------------- claims

\* C1: an enqueue invoked after shutdown has been initiated (stop set) fails
\* with PoolStopped: its task is never in the queue, is never started or
\* executed, and the caller does not see enqueue return normally.
C1_EnqueueAfterStopFails ==
    \A t \in afterStop :
        /\ t \notin Range(tasks)
        /\ t \notin started
        /\ execCount[t] = 0
        /\ enqOutcome[t] # "returned"

\* C2: every task put into the queue before the pool is stopped is eventually
\* executed, under fair scheduling and with terminating tasks.
C2_EnqueuedEventuallyExecuted ==
    \A t \in Ids : (t \in pushedBeforeStop) ~> (execCount[t] = 1)

\* C2 witness: as many tasks as there are workers were enqueued on a pool
\* that is not stopped, and all of them have been executed.
C2_Witness ==
    /\ \A t \in 1..NumWorkers : t \in pushedBeforeStop /\ execCount[t] = 1
    /\ ~stop

C4_StopEndsAcceptLoop ==
    [][(/\ acceptorPc = "accept"
        /\ serverSocket = "closed"
        /\ clientSocket # -1
        /\ clientSocket' = -1) => acceptorPc' = "returned"]_vars

\* C5: in every reachable state at most one route handler is executing,
\* across all worker threads.
C5_HandlersMutuallyExclusive ==
    Cardinality({w \in Workers : wpc[w] = "handler"}) <= 1

\* C5 witness: a handler is executing for one registered path while another
\* worker holds a request for a different registered path and waits for
\* the route lock.
C5_Witness ==
    \E w1, w2 \in Workers :
        /\ wpc[w1] = "handler"
        /\ wpc[w2] = "lookup"
        /\ wreq[w1].path # wreq[w2].path
        /\ wreq[w2].path \in DOMAIN routes

\* C6: a registration changes the route table only while it holds the route
\* lock and no handler invocation is in progress, and a handler that is
\* executing is the one the table holds for the request's path: the table
\* the dispatch sees does not change under it.
C6_RegistrationSerialized ==
    /\ [][routes' # routes
            => /\ routesMutex = Registrar
               /\ \A w \in Workers : wpc[w] # "handler"]_vars
    /\ [](\A w \in Workers :
            wpc[w] = "handler"
              => /\ routesMutex = W(w)
                 /\ wreq[w].path \in DOMAIN routes
                 /\ routes[wreq[w].path] = wfound[w])

\* C6 witness: a registration is in progress, holding the route lock, while
\* a worker has a request in hand and waits for the lock to dispatch it.
C6_Witness ==
    /\ routesMutex = Registrar
    /\ regArgs # NoCall
    /\ \E w \in Workers : wpc[w] = "lookup" /\ wreq[w].path = regArgs.path

\* C7: a dispatch of a request whose path has a registration invokes the
\* handler most recently registered for the path when the path was looked
\* up, once, and no other handler.
C7_MostRecentHandlerInvoked ==
    \A w \in Workers :
        /\ Len(winvoked[w]) <= 1
        /\ wpc[w] = "handler" => wfound[w] = wexpected[w]
        /\ (wpc[w] \in {"send", "close"} /\ wexpected[w] # "none")
              => winvoked[w] = <<wexpected[w]>>

\* C7 witness: a path was registered twice, with different handlers, and a
\* request for it was dispatched to the second one.
C7_Witness ==
    \E w \in Workers :
        /\ wpc[w] = "close"
        /\ wreq[w].path = PathA
        /\ Cardinality({c \in regDone : c.path = PathA}) = 2
        /\ winvoked[w] = <<lastReg[PathA]>>

\* C8: the route table is keyed by the path alone: get and post for one path
\* leave one entry, which holds the handler of the later call, and that
\* handler is the one found for a request to the path, whatever the
\* request's method.
C8_KeyedByPathOnly ==
    /\ DOMAIN routes = {p \in Paths : regMethods[p] # {}}
    /\ \A p \in DOMAIN routes : routes[p] = lastReg[p]
    /\ \A w \in Workers :
          wpc[w] = "handler" => wfound[w] = lastReg[wreq[w].path]

\* C8 witness: get and post have both registered the path, and a request to
\* it with a third method is being answered by the later handler.
C8_Witness ==
    \E w \in Workers :
        /\ wpc[w] = "handler"
        /\ regMethods[wreq[w].path] = {"GET", "POST"}
        /\ wreq[w].method \notin {<<"G", "E", "T">>, <<"P", "O", "S", "T">>}
        /\ wfound[w] = lastReg[wreq[w].path]

\* C9: a request whose path has no registration when it is looked up gets
\* one response, with status 404 and body "Not Found", and no handler is
\* invoked for it.
C9_UnregisteredPathNotFound ==
    \A w \in Workers :
        (wpc[w] \in {"send", "close"} /\ wexpected[w] = "none")
           => /\ winvoked[w] = <<>>
              /\ (wpc[w] = "close"
                    => /\ Len(wsent[w]) = 1
                       /\ wsent[w][1].statusCode = 404
                       /\ wsent[w][1].body = NotFoundBody)

\* C9 witness: the response to a request for an unregistered path has been
\* sent.
C9_Witness ==
    \E w \in Workers :
        /\ wpc[w] = "close"
        /\ wexpected[w] = "none"
        /\ wsent[w] # <<>>

\* C10 (as claimed): a connection whose task is over, because handleRequest
\* returned or because the process ended under it, had one read, one
\* response sent and one close, and nothing is sent on a closed socket.
C10_OneRequestPerConnection ==
    /\ \A c \in Ids :
          (execCount[c] = 1 \/ (terminated /\ reads[c] > 0))
             => (reads[c] = 1 /\ sends[c] = 1 /\ closes[c] = 1)
    /\ \A w \in Workers : wpc[w] = "send" => closes[wtask[w]] = 0

\* one of the four setup stages of listen has failed (each failure is
\* written to std::cerr)
SetupFailed ==
    \E i \in 1..Len(cerr) : cerr[i] \in {InitFailedMsg, "Listen failed"}

\* C11: once socket creation, configuration, bind or listen has failed,
\* listen has returned and stays returned (no retry): the start callback has
\* not been invoked, accept has returned nothing, and no connection has been
\* handed out or put into the task queue.
C11_SetupFailureIsFatal ==
    SetupFailed => /\ acceptorPc = "returned"
                   /\ onStartCalls = 0
                   /\ clientSocket = 0
                   /\ nextId = 1
                   /\ tasks = <<>>
                   /\ started = {}

\* C11 witness: bind or listen failed after the socket had been created, and
\* the socket was closed.
C11_Witness == SetupFailed /\ serverSocket = "closed"

\* C12 (as claimed): the step in which accept returns an error while the
\* server is in its accept loop writes the error to the log, puts no task
\* into the queue and leaves the acceptor in the loop.
C12_AcceptErrorLoggedAndSkipped ==
    [][(acceptorPc = "accept" /\ clientSocket # -1 /\ clientSocket' = -1)
          => /\ Len(cerr') = Len(cerr) + 1
             /\ tasks' = tasks
             /\ nextId' = nextId
             /\ acceptorPc' = "accept"]_vars

\* worker w is blocked in read(clientSocket, buffer, BUFFER_SIZE)
Stalled(w) == wpc[w] = "run"

\* every worker of the pool is blocked in read
AllStalled == \A w \in 1..numThreads : Stalled(w)

\* C13: a worker blocked in read leaves it only when the read returns (there
\* is no timeout), so N silent peers hold all N workers for as long as they
\* stay silent; while all N are blocked no connection leaves the queue or
\* begins to be served; and the connection at the head of the queue begins
\* to be served once some worker is not blocked in read (unless the process
\* ends first).
C13_StalledPeersExhaustWorkers ==
    /\ [][\A w \in 1..numThreads :
            (Stalled(w) /\ wpc'[w] # "run")
               => reads'[wtask[w]] = reads[wtask[w]] + 1]_vars
    /\ [][AllStalled => /\ started' = started
                        /\ Len(tasks') >= Len(tasks)
                        /\ \A i \in 1..Len(tasks) : tasks'[i] = tasks[i]]_vars
    /\ \A c \in 1..MaxConns :
          (tasks # <<>> /\ Head(tasks) = c /\ ~AllStalled)
             ~> (c \in started \/ terminated)

\* C13 witness: every worker is blocked in read and a connection accepted
\* after theirs is in the queue.
C13_Witness ==
    /\ AllStalled
    /\ tasks # <<>>
    /\ \A w \in 1..numThreads : wtask[w] < Head(tasks)

\* C14 (as claimed): whatever bytes a connection delivers, constructing the
\* Request completes and the process goes on: it is never terminated, and a
\* connection whose read succeeded and whose task is over has been answered.
C14_ParsingNeverCrashes ==
    /\ ~terminated
    /\ \A c \in 1..MaxConns :
          (readResult[c] = "ok" /\ execCount[c] = 1) => sends[c] = 1

\* C15 (as claimed): the Request constructed from a request whose target is
\* /search?q=test&x= y  has the query parameters q = "test" and x = "y".
C15_QueryExample ==
    (parsePc = "parsed" /\ reqParts.target = SearchTarget)
       => /\ QueryParam(request, <<"q">>) = <<"t", "e", "s", "t">>
          /\ QueryParam(request, <<"x">>) = <<"y">>

\* what getline leaves of header line i after its colon: the value and, for
\* a CRLF line end, the carriage return
AfterColon(parts, i) ==
    parts.headerLines[i][2] \o SubSeq(parts.eol, 1, Len(parts.eol) - 1)

\* header line i is the last one of the request with its name
LastOccurrence(parts, i) ==
    \A j \in (i + 1)..Len(parts.headerLines) :
        Trim(parts.headerLines[j][1]) # Trim(parts.headerLines[i][1])

\* C16 (as claimed): for every header name of the request, the header
\* mapping of the constructed Request holds what the last header line with
\* that name carries after its colon, trimmed of blanks.
C16_LastHeaderOccurrenceWins ==
    (parsePc = "parsed" /\ ~request.throws)
       => \A i \in 1..Len(reqParts.headerLines) :
             LastOccurrence(reqParts, i)
                => GetHeader(request, Trim(reqParts.headerLines[i][1]))
                      = Trim(AfterColon(reqParts, i))

\* the reason phrases of the status line, by status code
ReasonPhrase(code) ==
    CASE code = 200 -> <<"O", "K">>
      [] code = 400 -> <<"B", "a", "d", " ", "R", "e", "q", "u", "e", "s", "t">>
      [] code = 404 -> <<"N", "o", "t", " ", "F", "o", "u", "n", "d">>
      [] code = 500 -> <<"I", "n", "t", "e", "r", "n", "a", "l", " ", "S", "e", "r", "v", "e", "r", " ", "E", "r", "r", "o", "r">>
      [] OTHER -> <<"U", "n", "k", "n", "o", "w", "n", " ", "S", "t", "a", "t", "u", "s">>

\* the length of the header lines "Key: Value" CRLF of the keys given
RECURSIVE LinesLength(_, _)
LinesLength(res, keys) ==
    IF keys = {} THEN 0
    ELSE LET k == CHOOSE x \in keys : TRUE
         IN  Len(k) + 2 + Len(res.headers[k]) + 2 + LinesLength(res, keys \ {k})

\* line occurs in s as a whole line, after a CRLF, and ends before position end
HasLineBefore(s, line, end) ==
    LET at == FindStr(s, CRLF \o line \o CRLF, 0)
    IN  at # -1 /\ at + Len(line) + 4 <= end

\* res.status(400).setHeader("X", "y").send("hi")
ExampleCalls ==
    << Call("status", 400, <<>>, <<>>, TRUE),
       Call("setHeader", 0, <<"X">>, <<"y">>, TRUE),
       Call("send", 0, <<>>, <<"h", "i">>, TRUE) >>

\* C17: what toHttpResponse() returns begins with the status line
\* "HTTP/1.1 <code> <reason>" CRLF with the reason phrase of the code; every
\* header of the mapping is in it as a line "Key: Value" CRLF before the
\* blank line; it ends with the blank line and the body; and it holds
\* nothing else, so every header is there once. For
\* status(400).setHeader("X","y").send("hi") it starts with
\* "HTTP/1.1 400 Bad Request" and has the lines "X: y",
\* "Content-Type: text/plain" and "Content-Length: 2".
C17_SerializationFormat ==
    resPc = "serialized" =>
      LET out        == httpResponse
          statusLine == <<"H", "T", "T", "P", "/", "1", ".", "1", " ">> \o StdToString(response.statusCode) \o <<" ">>
                          \o ReasonPhrase(response.statusCode) \o CRLF
          keys       == DOMAIN response.headers
          bodyStart  == Len(out) - Len(response.body)
      IN  /\ MatchesAt(out, statusLine, 0)
          /\ \A k \in keys :
                HasLineBefore(out, k \o <<":", " ">> \o response.headers[k],
                              bodyStart - 2)
          /\ Len(out) = Len(statusLine) + LinesLength(response, keys) + 2
                          + Len(response.body)
          /\ bodyStart >= 4
          /\ MatchesAt(out, CRLF \o CRLF \o response.body, bodyStart - 4)
          /\ resCalls = ExampleCalls
                => /\ MatchesAt(out, <<"H", "T", "T", "P", "/", "1", ".", "1", " ", "4", "0", "0", " ", "B", "a", "d", " ", "R", "e", "q", "u", "e", "s", "t">>, 0)
                   /\ HasLineBefore(out, <<"X", ":", " ", "y">>, bodyStart - 2)
                   /\ HasLineBefore(out, <<"C", "o", "n", "t", "e", "n", "t", "-", "T", "y", "p", "e", ":", " ", "t", "e", "x", "t", "/", "p", "l", "a", "i", "n">>, bodyStart - 2)
                   /\ HasLineBefore(out, <<"C", "o", "n", "t", "e", "n", "t", "-", "L", "e", "n", "g", "t", "h", ":", " ", "2">>, bodyStart - 2)

\* C17 witness: the Response of the example has been serialized.
C17_Witness == resPc = "serialized" /\ resCalls = ExampleCalls

\* the step is a call of sendFile on a path that cannot be opened
SendFileFailsStep ==
    /\ Len(resCalls') = Len(resCalls) + 1
    /\ resCalls'[Len(resCalls')].op = "sendFile"
    /\ ~resCalls'[Len(resCalls')].opens

\* C18: a sendFile on a path that cannot be opened leaves the status code
\* as it was before the call, sets the body to "File not found", and sets
\* Content-Type to text/html and Content-Length to 14.
C18_SendFileMissing ==
    [][SendFileFailsStep
         => /\ response'.statusCode = response.statusCode
            /\ response'.body = <<"F", "i", "l", "e", " ", "n", "o", "t", " ", "f", "o", "u", "n", "d">>
            /\ MapLookup(response'.headers, ContentType) = <<"t", "e", "x", "t", "/", "h", "t", "m", "l">>
            /\ MapLookup(response'.headers, ContentLength) = <<"1", "4">>]_vars

\* C18 witness: sendFile has failed to open its file on a Response whose
\* status had been set to 404 and whose headers had been set by send.
C18_Witness ==
    /\ Len(resCalls) = 3
    /\ resCalls[1].op = "status" /\ resCalls[1].code = 404
    /\ resCalls[2].op = "send"
    /\ resCalls[3].op = "sendFile" /\ ~resCalls[3].opens

\* sequence a is the beginning of sequence b
IsPrefix(a, b) == Len(a) <= Len(b) /\ SubSeq(b, 1, Len(a)) = a

\* C19: the tasks leave the queue in the order they were put into it,
\* whatever the number of workers and the interleaving: the tasks taken so
\* far are the first of those enqueued, in that order, and the queue holds
\* the rest in that order; with a single worker the tasks also complete in
\* the order they were enqueued.
C19_QueueIsFifo ==
    /\ IsPrefix(takeOrder, pushOrder)
    /\ tasks = SubSeq(pushOrder, Len(takeOrder) + 1, Len(pushOrder))
    /\ numThreads = 1 => IsPrefix(doneOrder, pushOrder)

\* C19 witness: a pool with a single worker has completed two tasks that
\* were both in the queue before it took the first.
C19_Witness ==
    /\ numThreads = 1
    /\ Len(doneOrder) >= 2
    /\ pushedBeforeStop = Range(pushOrder)
    /\ started = Range(doneOrder)

\* the acceptor's state for a position of listen: Unbound until bind has
\* succeeded, Bound until ::listen has, Listening until onStart has
\* returned, Running in the accept loop, Stopped once listen has returned
AcceptorStateAt(pc) ==
    CASE pc \in {"create", "configure", "bind"} -> "Unbound"
      [] pc = "listen"   -> "Bound"
      [] pc = "onStart"  -> "Listening"
      [] pc = "accept"   -> "Running"
      [] pc = "returned" -> "Stopped"

StateRank(state) ==
    CASE state = "Unbound"   -> 0
      [] state = "Bound"     -> 1
      [] state = "Listening" -> 2
      [] state = "Running"   -> 3
      [] state = "Stopped"   -> 4

\* C20: the acceptor's state only moves forward in the order Unbound, Bound,
\* Listening, Running, Stopped, and it enters Bound, Listening and Running
\* only from the state before; the start callback is invoked at most once,
\* in the step from Listening to Running, so after listen succeeded and
\* before the first accept; and no connection has been accepted or enqueued
\* while the callback has not returned.
C20_AcceptorStateOrder ==
    /\ [][LET from == AcceptorStateAt(acceptorPc)
              to   == AcceptorStateAt(acceptorPc')
          IN  /\ StateRank(to) >= StateRank(from)
              /\ (to # from /\ to # "Stopped")
                    => StateRank(to) = StateRank(from) + 1
              /\ onStartCalls' # onStartCalls
                    => /\ from = "Listening" /\ to = "Running"
                       /\ onStartCalls = 0 /\ onStartCalls' = 1
              /\ (from = "Listening" /\ to # from)
                    => onStartCalls' = 1]_vars
    /\ [](AcceptorStateAt(acceptorPc) = "Running" => onStartCalls = 1)
    /\ []((clientSocket # 0 \/ nextId > 1 \/ tasks # <<>> \/ started # {})
            => onStartCalls = 1)

\* C20 witness: the callback has been invoked once and, after it, a
\* connection has been accepted and put into the queue.
C20_Witness ==
    /\ onStartCalls = 1
    /\ AcceptorStateAt(acceptorPc) = "Running"
    /\ clientSocket > 0
    /\ tasks # <<>>

\* C28: a connection whose read failed has been read once, is closed once,
\* has its task finished with "Read failed" in the log, has had no response
\* bytes written to it, and no worker goes on with it: none is parsing its
\* request, waiting for or holding the route lock for it, or running a
\* handler for it.
C28_FailedReadOnlyCloses ==
    \A c \in Ids :
        readResult[c] = "failed"
            => /\ reads[c] = 1
               /\ closes[c] = 1
               /\ sends[c] = 0
               /\ execCount[c] = 1
               /\ \E i \in 1..Len(cerr) : cerr[i] = "Read failed"
               /\ \A w \in Workers : wtask[w] # c

\* C28 witness: a read has failed on one connection while a handler found
\* for another connection holds the route lock.
C28_Witness ==
    /\ \E c \in Ids : readResult[c] = "failed"
    /\ \E w \in Workers : wpc[w] = "handler" /\ routesMutex = W(w)

\* the calls of the handler that set the body, and those that set the status
BodyCalls ==
    {i \in 1..Len(resCalls) : resCalls[i].op \in {"send", "json", "sendFile"}}

StatusCalls == {i \in 1..Len(resCalls) : resCalls[i].op = "status"}

LastOf(indices) == CHOOSE i \in indices : \A j \in indices : j <= i

\* the body the handler's calls leave: that of its last send, json or
\* sendFile, empty when it made none
HandlerBody ==
    IF BodyCalls = {} THEN <<>>
    ELSE LET c == resCalls[LastOf(BodyCalls)]
         IN  IF c.op = "sendFile" /\ ~c.opens THEN FileNotFound ELSE c.value

\* the status the handler's calls leave on a Response handed over with 404
HandlerStatus ==
    IF StatusCalls = {} THEN 404 ELSE resCalls[LastOf(StatusCalls)].code

StatusLine(code) ==
    <<"H", "T", "T", "P", "/", "1", ".", "1", " ">> \o StdToString(code)
        \o <<" ">> \o ReasonPhrase(code)

\* the bytes sent begin with the line given, and they end with a blank line
\* followed by the body given
SentStartsWith(line) == IsPrefix(line \o CRLF, httpResponse)

SentEndsWith(b) ==
    LET end == CRLF \o CRLF \o b
        n   == Len(httpResponse)
    IN  Len(end) <= n /\ SubSeq(httpResponse, n - Len(end) + 1, n) = end

\* C21: when the handler has returned with an empty body, whatever status
\* it set and also when it called send(""), the bytes sent have the status
\* line "HTTP/1.1 404 Not Found" and the body "Not Found"; when it has
\* returned with a non-empty body, the bytes sent carry that body and the
\* status the handler left.
C21_EmptyBodyBecomesNotFound ==
    resPc = "sent"
        => IF HandlerBody = <<>>
             THEN /\ SentStartsWith(StatusLine(404))
                  /\ SentEndsWith(<<"N", "o", "t", " ", "F", "o", "u", "n", "d">>)
                  /\ response.statusCode = 404
             ELSE /\ SentEndsWith(HandlerBody)
                  /\ SentStartsWith(StatusLine(HandlerStatus))
                  /\ response.statusCode = HandlerStatus

\* C21 witness: the handler called status(200) and send("") and has returned.
C21_Witness ==
    /\ resPc = "sent"
    /\ resCalls = << Call("status", 200, <<>>, <<>>, TRUE),
                     Call("send", 0, <<>>, <<>>, TRUE) >>

\* C24: the Response handed to the handler has status 404 and, while the
\* handler runs, its status is that of the handler's last status() call, 404
\* if it made none; so when a handler that set a non-empty body with send,
\* json or sendFile and never called status() has returned, the bytes sent
\* have the status line "HTTP/1.1 404 Not Found" and the handler's body.
C24_StatusStays404WithoutStatusCall ==
    /\ resPc = "building" => response.statusCode = HandlerStatus
    /\ (resPc = "sent" /\ StatusCalls = {} /\ HandlerBody # <<>>)
          => /\ SentStartsWith(<<"H", "T", "T", "P", "/", "1", ".", "1", " ",
                               "4", "0", "4", " ",
                               "N", "o", "t", " ", "F", "o", "u", "n", "d">>)
             /\ SentEndsWith(HandlerBody)

\* C24 witness: a handler whose only call was send("hi") has returned.
C24_Witness ==
    /\ resPc = "sent"
    /\ resCalls = << Call("send", 0, <<>>, <<"h", "i">>, TRUE) >>

\* the lines of the body joined with newlines, a single trailing newline
\* stripped
JoinedBody(b) ==
    IF b # <<>> /\ b[Len(b)] = "\n" THEN SubSeq(b, 1, Len(b) - 1) ELSE b

\* the names of the header lines, trimmed of blanks
HeaderNames(parts) ==
    {Trim(parts.headerLines[i][1]) : i \in 1..Len(parts.headerLines)}

\* C22 (as claimed): for a request with CRLF line ends, the header mapping
\* of the constructed Request holds no key but the names of the lines between
\* the request line and the first blank line, and body is what follows the
\* blank line, its lines joined with newlines and a single trailing newline
\* stripped.
C22_CrlfBlankLineEndsHeaders ==
    (parsePc = "parsed" /\ reqParts.eol = CRLF /\ ~request.throws)
       => /\ DOMAIN request.headers \subseteq HeaderNames(reqParts)
          /\ request.body = JoinedBody(reqParts.body)

\* no setHeader of the chain names Content-Length or Content-Type
NoFramingSetHeader ==
    \A i \in 1..Len(resCalls) :
        resCalls[i].op = "setHeader"
            => resCalls[i].key \notin {ContentLength, ContentType}

\* the media type each body-setting call announces
MediaTypeOf(op) ==
    CASE op = "send"     -> <<"t", "e", "x", "t", "/", "p", "l", "a", "i", "n">>
      [] op = "json"     -> <<"a", "p", "p", "l", "i", "c", "a", "t", "i", "o", "n", "/", "j", "s", "o", "n">>
      [] op = "sendFile" -> <<"t", "e", "x", "t", "/", "h", "t", "m", "l">>

\* C23: the body of a Response is always the one its last send, json or
\* sendFile call gave it (empty before the first), so status and setHeader
\* never change it; and once one of the three has been called, in a chain
\* whose setHeader calls name neither Content-Length nor Content-Type, the
\* Content-Length header is the decimal length of the body and Content-Type
\* is text/plain, application/json or text/html by which was called last.
C23_FramingHeadersFollowBody ==
    /\ response.body = HandlerBody
    /\ (BodyCalls # {} /\ NoFramingSetHeader)
          => /\ ContentLength \in DOMAIN response.headers
             /\ ContentType \in DOMAIN response.headers
             /\ response.headers[ContentLength] = StdToString(Len(response.body))
             /\ response.headers[ContentType]
                   = MediaTypeOf(resCalls[LastOf(BodyCalls)].op)

\* C23 witness: send("hi"), then json("{}"), then setHeader("X", "y").
C23_Witness ==
    resCalls = << Call("send", 0, <<>>, <<"h", "i">>, TRUE),
                  Call("json", 0, <<>>, <<"{", "}">>, TRUE),
                  Call("setHeader", 0, <<"X">>, <<"y">>, TRUE) >>

\* the number of places at which task t stands in the sequence s
Occurrences(s, t) == Cardinality({i \in 1..Len(s) : s[i] = t})

\* C26: at most as many tasks are being executed as the pool was built with
\* workers; a task is held by at most one worker, has left the queue at most
\* once and is no longer in it when it has, and has been executed at most
\* once, and only after it was taken.
C26_BoundedParallelismExactlyOnce ==
    /\ Cardinality({w \in Workers : wpc[w] = "run"}) <= numThreads
    /\ \A t \in Ids :
          /\ Cardinality({w \in Workers : wtask[w] = t}) <= 1
          /\ Occurrences(takeOrder, t) <= 1
          /\ Occurrences(takeOrder, t) = 1 => Occurrences(tasks, t) = 0
          /\ execCount[t] <= 1
          /\ execCount[t] = 1 => Occurrences(takeOrder, t) = 1

\* C26 witness: a pool of one worker is executing a task while another task
\* waits in the queue.
C26_Witness ==
    /\ numThreads = 1
    /\ \E w \in Workers : wpc[w] = "run"
    /\ tasks # <<>>

\* worker w is executing its task, handleRequest: from the read to the close
InTask(w) == wpc[w] \in {"run", "lookup", "handler", "send", "close"}

\* C27: a worker that is executing a task does not hold the queue lock; no
\* thread holds the queue lock and the route lock together, and the
\* acceptor never holds the route lock; and an enqueue that waits for the
\* queue lock waits only for a worker that is inside the short block of its
\* loop, never for one that is reading, waiting for the route lock or
\* running a handler, so it can take the lock whenever every worker is busy
\* with a task (in a process that has not been terminated).
C27_AcceptorNotBlockedByHandlers ==
    /\ \A w \in Workers :
          /\ InTask(w) => queueMutex # W(w)
          /\ routesMutex = W(w) => queueMutex # W(w)
    /\ routesMutex # Producer
    /\ (~terminated /\ enqPc = "lock" /\ ~ENABLED EnqLock)
          => \E w \in Workers : queueMutex = W(w) /\ wpc[w] = "wait"
    /\ (~terminated /\ enqPc = "lock" /\ \A w \in 1..numThreads : InTask(w))
          => ENABLED EnqLock

\* C27 witness: every worker of the pool is inside a task, one of them in a
\* handler with the route lock held, and a connection accepted since has
\* been put into the queue by the acceptor.
C27_Witness ==
    /\ \A w \in 1..numThreads : InTask(w)
    /\ \E w \in 1..numThreads : wpc[w] = "handler" /\ routesMutex = W(w)
    /\ tasks # <<>>
    /\ enqPc = "idle"

\* worker w is inside a handler that has called get on its own App
Reentered(w) == "reenter" \in Range(winvoked[w])

\* worker w is blocked in the second lock() of the route mutex
Relocking(w) == wpc[w] = "relock"

====
